---------------------------- MODULE Spec2Model ----------------------------
(***************************************************************************)
(* A model of the jser JSON serialization library (jser.c / jser.h).      *)
(*                                                                         *)
(* Text is a sequence of one-character strings, a byte of a binary buffer *)
(* is a number 0..255.  A descriptor (jser_t) is a record                  *)
(*   [attr, type, length, used, is_array, null, data]                      *)
(* whose data field holds the caller's variable the descriptor points to: *)
(* a number, a boolean, a text, a buffer record [length, used, buf], or,   *)
(* for JSER_OBJECT_E / JSER_ARRAY_E, the sequence of child descriptors.    *)
(* Two descriptors never share a variable in this model.                   *)
(*                                                                         *)
(* Every C function is an operator of the same name.  A function that      *)
(* works on the jser_opts_t / jser_buffer_t pair takes and returns one     *)
(* context record holding both, with the C return value in field rv.       *)
(***************************************************************************)
EXTENDS Integers, Sequences, FiniteSets, TLC

(***************************************************************************)
(* Bounds of the model.                                                    *)
(***************************************************************************)
\* machine words are WordBits wide (the program's are 64 bits wide)
WordBits == 12
\* the largest magnitude of the integers held by the caller's variables
MaxVal == 12
\* serialization capacities are tried up to this many bytes above the exact size
MaxSlack == 1
\* token arrays are tried with up to this many spare entries
MaxSpare == 2

(***************************************************************************)
(* Program constants.                                                      *)
(***************************************************************************)
JSER_MAX_DEPTH == 0
JSER_ENABLE_ESCAPE == 1
JSER_ENABLE_USED_SET == 1
JSER_OK == 0
JSER_ERR_UNKNOWN == -1
JSER_ERR_DEPTH == -2
JSER_ERR_BASE64 == -3
JSER_ERR_SPACE == -4
JSER_ERR_PARSE == -6
JSER_ERR_MORE_DAT == -7
JSER_ERR_TYPE == -8
JSER_ERR_NUMBER == -9
JSER_ERR_CONFIG == -11
JSER_ERR_LENGTH == -12
\* SIZE_MAX, the capacity of the dry-run buffer (scaled to the model's numbers)
SIZE_MAX == 1000000
JSER_PRETTY_STRING == <<"\t">>
\* the character '\\0'
NUL == "NUL"

Pow2(n) == 2 ^ n
UMod == Pow2(WordBits)
SMin == 0 - Pow2(WordBits - 1)
SMax == Pow2(WordBits - 1) - 1
\* the value of an integer converted to the unsigned word type
ToU(x) == x % UMod
\* the value of an unsigned word converted to the signed word type
ToS(u) == IF u % UMod > SMax THEN (u % UMod) - UMod ELSE u % UMod

boolify(x) == IF x # 0 THEN 1 ELSE 0

within(value, lo, hi) == (value >= lo) /\ (value <= hi)

RECURSIVE reverse(_)
reverse(r) == IF r = <<>> THEN <<>> ELSE Append(reverse(Tail(r)), Head(r))

(***************************************************************************)
(* Integer codec.                                                          *)
(***************************************************************************)
DigitChars == <<"0", "1", "2", "3", "4", "5", "6", "7", "8", "9",
                "A", "B", "C", "D", "E", "F">>
LowerHex == <<"a", "b", "c", "d", "e", "f">>

\* the digits of u, least significant first (the do/while loop of u64_to_str)
RECURSIVE u64_digits(_, _)
u64_digits(u, base) ==
    LET q == u % base
        r == u \div base
    IN  IF r = 0 THEN <<DigitChars[q + 1]>>
        ELSE <<DigitChars[q + 1]>> \o u64_digits(r, base)

u64_to_str(u, base) == reverse(u64_digits(ToU(u), base))

\* s = -s is computed in the signed word type and handed over as unsigned
i64_to_str(s, base) ==
    IF s < 0 THEN <<"-">> \o u64_to_str(ToU(ToS(0 - s)), base)
    ELSE u64_to_str(s, base)

digit(ch, base) ==
    LET r0 == IF \E k \in 1..10 : DigitChars[k] = ch
              THEN (CHOOSE k \in 1..10 : DigitChars[k] = ch) - 1 ELSE -1
        r1 == IF \E k \in 1..6 : LowerHex[k] = ch
              THEN (CHOOSE k \in 1..6 : LowerHex[k] = ch) + 9 ELSE r0
        r2 == IF \E k \in 11..16 : DigitChars[k] = ch
              THEN (CHOOSE k \in 11..16 : DigitChars[k] = ch) - 1 ELSE r1
    IN  IF r2 >= base THEN -1 ELSE r2

\* the loop of str_to_u64 from index i with accumulator t
RECURSIVE str_to_u64_loop(_, _, _, _)
str_to_u64_loop(str, i, base, t) ==
    IF i > Len(str) THEN [rv |-> 0, out |-> t]
    ELSE LET dg == digit(str[i], base)
             nt1 == (t * base) % UMod
             nt2 == (nt1 + dg) % UMod
         IN  IF dg < 0 THEN [rv |-> -1, out |-> 0]
             ELSE IF nt1 < t THEN [rv |-> -1, out |-> 0]
             ELSE IF nt2 < t THEN [rv |-> -1, out |-> 0]
             ELSE str_to_u64_loop(str, i + 1, base, nt2)

str_to_u64(str, base) ==
    IF Len(str) = 0 THEN [rv |-> -1, out |-> 0]
    ELSE str_to_u64_loop(str, 1, base, 0)

\* out is meaningful only when rv = 0 (the C function leaves *out alone on failure)
str_to_i64(str, base) ==
    LET negative == IF Len(str) > 0 /\ str[1] = "-" THEN 1 ELSE 0
        u == str_to_u64(SubSeq(str, 1 + negative, Len(str)), base)
        o == ToS(u.out)
    IN  IF u.rv < 0 THEN [rv |-> -1, out |-> 0]
        ELSE [rv |-> 0, out |-> IF negative = 1 THEN ToS(0 - o) ELSE o]

\* whether str_to_i64 comes to negate the least signed value (o = -o)
str_to_i64_negates_min(str, base) ==
    /\ Len(str) > 0
    /\ str[1] = "-"
    /\ str_to_u64(SubSeq(str, 2, Len(str)), base).rv = 0
    /\ ToS(str_to_u64(SubSeq(str, 2, Len(str)), base).out) = SMin

(***************************************************************************)
(* Base64 codec.                                                           *)
(***************************************************************************)
lookup == <<"A", "B", "C", "D", "E", "F", "G", "H",
            "I", "J", "K", "L", "M", "N", "O", "P",
            "Q", "R", "S", "T", "U", "V", "W", "X",
            "Y", "Z", "a", "b", "c", "d", "e", "f",
            "g", "h", "i", "j", "k", "l", "m", "n",
            "o", "p", "q", "r", "s", "t", "u", "v",
            "w", "x", "y", "z", "0", "1", "2", "3",
            "4", "5", "6", "7", "8", "9", "+", "/">>
mod_table == <<0, 2, 1>>
WS == 64
EQ == 65
XX == 66

\* the decode table d[]: 0..63 a digit, WS white space, EQ the pad, XX invalid
d(ch) ==
    IF \E k \in 1..64 : lookup[k] = ch
    THEN (CHOOSE k \in 1..64 : lookup[k] = ch) - 1
    ELSE IF ch = "\n" THEN WS
    ELSE IF ch = "=" THEN EQ
    ELSE XX

base64_decoded_size(sz) == (sz * 3) \div 4

base64_encoded_size(sz) == 4 * ((sz + 2) \div 3)

\* the main loop of jser_base64_decode: st = [iter, buf, len, out]
RECURSIVE base64_decode_loop(_, _, _, _)
base64_decode_loop(ibuf, i, olen, st) ==
    IF i > Len(ibuf) THEN [rv |-> 0, st |-> st]
    ELSE LET c == d(ibuf[i])
         IN  IF c = WS THEN base64_decode_loop(ibuf, i + 1, olen, st)
             ELSE IF c = XX THEN [rv |-> -1, st |-> st]
             ELSE IF c = EQ THEN [rv |-> 0, st |-> st]
             ELSE LET buf == (st.buf * 64) + c
                      iter == st.iter + 1
                  IN  IF iter = 4
                      THEN IF st.len + 3 > olen
                           THEN [rv |-> -1, st |-> [st EXCEPT !.len = @ + 3]]
                           ELSE base64_decode_loop(ibuf, i + 1, olen,
                                  [iter |-> 0, buf |-> 0, len |-> st.len + 3,
                                   out |-> st.out \o <<(buf \div 65536) % 256,
                                                       (buf \div 256) % 256,
                                                       buf % 256>>])
                      ELSE base64_decode_loop(ibuf, i + 1, olen,
                                  [st EXCEPT !.buf = buf, !.iter = iter])

\* jser_base64_decode that stores a last, partial group without looking at *olen
jser_base64_decode_unchecked_tail(ibuf, olen) ==
    LET r == base64_decode_loop(ibuf, 1, olen,
                 [iter |-> 0, buf |-> 0, len |-> 0, out |-> <<>>])
        st == r.st
    IN  IF r.rv < 0 THEN [rv |-> -1, out |-> st.out, olen |-> olen]
        ELSE IF st.iter = 3
        THEN [rv |-> 0, olen |-> st.len + 2,
              out |-> st.out \o <<(st.buf \div 1024) % 256, (st.buf \div 4) % 256>>]
        ELSE IF st.iter = 2
        THEN [rv |-> 0, olen |-> st.len + 1,
              out |-> st.out \o <<(st.buf \div 16) % 256>>]
        ELSE [rv |-> 0, out |-> st.out, olen |-> st.len]

\* rv, the bytes written to obuf (from its start, also on failure), and *olen
jser_base64_decode(ibuf, olen) ==
    LET r == base64_decode_loop(ibuf, 1, olen,
                 [iter |-> 0, buf |-> 0, len |-> 0, out |-> <<>>])
        st == r.st
    IN  IF r.rv < 0 THEN [rv |-> -1, out |-> st.out, olen |-> olen]
        ELSE IF st.iter = 3
        THEN IF st.len + 2 > olen THEN [rv |-> -1, out |-> st.out, olen |-> olen]
             ELSE [rv |-> 0, olen |-> st.len + 2,
                   out |-> st.out \o <<(st.buf \div 1024) % 256, (st.buf \div 4) % 256>>]
        ELSE IF st.iter = 2
        THEN IF st.len + 1 > olen THEN [rv |-> -1, out |-> st.out, olen |-> olen]
             ELSE [rv |-> 0, olen |-> st.len + 1,
                   out |-> st.out \o <<(st.buf \div 16) % 256>>]
        ELSE [rv |-> 0, out |-> st.out, olen |-> st.len]

\* the four characters of the group of input bytes starting at index i (1-based)
base64_group(ibuf, i) ==
    LET a == ibuf[i]
        b == IF i + 1 <= Len(ibuf) THEN ibuf[i + 1] ELSE 0
        c == IF i + 2 <= Len(ibuf) THEN ibuf[i + 2] ELSE 0
        triple == (a * 65536) + (b * 256) + c
    IN  <<lookup[((triple \div 262144) % 64) + 1],
          lookup[((triple \div 4096) % 64) + 1],
          lookup[((triple \div 64) % 64) + 1],
          lookup[(triple % 64) + 1]>>

RECURSIVE base64_encode_loop(_, _)
base64_encode_loop(ibuf, i) ==
    IF i > Len(ibuf) THEN <<>>
    ELSE base64_group(ibuf, i) \o base64_encode_loop(ibuf, i + 3)

\* jser_base64_encode without the loop that stores the '=' padding
jser_base64_encode_unpadded(ibuf, olen) ==
    IF olen < base64_encoded_size(Len(ibuf)) THEN [rv |-> -1, out |-> <<>>, olen |-> olen]
    ELSE [rv |-> 0, olen |-> base64_encoded_size(Len(ibuf)),
          out |-> base64_encode_loop(ibuf, 1)]

\* rv, the characters written to obuf, and *olen; ibuf holds the ilen input bytes
jser_base64_encode(ibuf, olen) ==
    LET ilen == Len(ibuf)
        osz == base64_encoded_size(ilen)
        raw == base64_encode_loop(ibuf, 1)
        pad == mod_table[(ilen % 3) + 1]
    IN  IF olen < osz THEN [rv |-> -1, out |-> <<>>, olen |-> olen]
        ELSE [rv |-> 0, olen |-> osz,
              out |-> [k \in 1..osz |-> IF k > osz - pad THEN "=" ELSE raw[k]]]


(***************************************************************************)
(* Descriptors.                                                            *)
(***************************************************************************)
JSER_LONG_E == "LONG"
JSER_ULONG_E == "ULONG"
JSER_BOOL_E == "BOOL"
JSER_ASCIIZ_E == "ASCIIZ"
JSER_BUFFER_E == "BUFFER"
JSER_OBJECT_E == "OBJECT"
JSER_ARRAY_E == "ARRAY"

\* struct jser; attr is <<>> where the C field is unset
jser_t(attr, type, length, used, is_array, data) ==
    [attr |-> attr, type |-> type, length |-> length, used |-> used,
     is_array |-> is_array, null |-> FALSE, data |-> data]

\* jser_buffer_t as the value of a JSER_BUFFER_E variable: buf holds 'length' bytes
jser_buffer_t(length, used, buf) == [length |-> length, used |-> used, buf |-> buf]

IsContainer(e) == e.type \in {JSER_OBJECT_E, JSER_ARRAY_E}

(***************************************************************************)
(* Output buffer writer.  The context c is the jser_opts_t                 *)
(* (max, error, pretty, dry_run) together with the jser_buffer_t written   *)
(* to (length, used, buf); buf holds the bytes at the indices below used,  *)
(* and oob records a store at an index >= length.                          *)
(***************************************************************************)
Context(max, pretty, dry_run, length) ==
    [max |-> max, error |-> JSER_OK, pretty |-> pretty, dry_run |-> dry_run,
     length |-> length, used |-> 0, buf |-> <<>>, oob |-> FALSE, rv |-> 0]

Fail(c) == [c EXCEPT !.rv = -1]

on_error(c, error) ==
    [c EXCEPT !.error = IF @ # 0 THEN @ ELSE error, !.rv = error]

\* b->buf[at .. at + Len(chars) - 1] = chars, for at <= b->used
StoreRun(c, at, chars) ==
    LET fit == IF at + Len(chars) <= c.length THEN Len(chars)
               ELSE IF c.length > at THEN c.length - at ELSE 0
        old == SubSeq(c.buf, 1, IF at < Len(c.buf) THEN at ELSE Len(c.buf))
    IN  [c EXCEPT !.buf = IF fit = 0 THEN @
                          ELSE old \o SubSeq(chars, 1, fit)
                                   \o SubSeq(@, at + fit + 1, Len(@)),
                  !.oob = @ \/ (fit < Len(chars))]

\* a value named once: F(v)
Let(v, F(_)) == F(v)

\* "if (f(...) < 0) return -1;", then the rest F on the context f leaves
Try(c, F(_)) == IF c.rv < 0 THEN Fail(c) ELSE F(c)

\* "if (f(...)) return -1;" and "if (f(...) != 0) return -1;"
TryZero(c, F(_)) == IF c.rv # 0 THEN Fail(c) ELSE F(c)

\* "r = f(...); if (r < 0) return r;"
Keep(c, F(_)) == IF c.rv < 0 THEN c ELSE F(c)

add_ch_off_by_one(c, ch) ==
    IF c.used > c.length THEN on_error(c, JSER_ERR_SPACE)
    ELSE LET c1 == IF c.dry_run = 0 THEN StoreRun(c, c.used, <<ch>>) ELSE c
         IN  [c1 EXCEPT !.used = @ + 1, !.rv = 0]

add_ch_dry_skips(c, ch) ==
    IF (1 + c.used) > c.length THEN on_error(c, JSER_ERR_SPACE)
    ELSE IF c.dry_run = 0
         THEN [StoreRun(c, c.used, <<ch>>) EXCEPT !.used = @ + 1, !.rv = 0]
         ELSE [c EXCEPT !.used = IF ch = "," THEN @ ELSE @ + 1, !.rv = 0]

add_ch(c, ch) ==
    IF (1 + c.used) > c.length THEN on_error(c, JSER_ERR_SPACE)
    ELSE LET c1 == IF c.dry_run = 0 THEN StoreRun(c, c.used, <<ch>>) ELSE c
         IN  [c1 EXCEPT !.used = @ + 1, !.rv = 0]

addescaped(c, esc) ==
    Try(add_ch(c, "\\"), LAMBDA c1 :
    Try(add_ch(c1, esc), LAMBDA c2 : c2))

\* the escape letter of a character, or <<>> when it is written as it is
EscapeOf(ch) ==
    IF ch = "\t" THEN <<"t">>
    ELSE IF ch = "\n" THEN <<"n">>
    ELSE IF ch = "\r" THEN <<"r">>
    ELSE IF ch = "\f" THEN <<"f">>
    ELSE IF ch = "\\" \/ ch = "\"" THEN <<ch>>
    ELSE <<>>

RECURSIVE addstr_loop(_, _, _)
addstr_loop(c, str, i) ==
    IF i > Len(str) THEN [c EXCEPT !.rv = 0]
    ELSE Try(IF EscapeOf(str[i]) # <<>> THEN addescaped(c, EscapeOf(str[i])[1])
             ELSE add_ch(c, str[i]),
             LAMBDA c1 : addstr_loop(c1, str, i + 1))

addstr(c, str) ==
    IF JSER_ENABLE_ESCAPE # 0 THEN addstr_loop(c, str, 1)
    ELSE IF (Len(str) + c.used) > c.length THEN on_error(c, JSER_ERR_SPACE)
    ELSE [(IF c.dry_run = 0 THEN StoreRun(c, c.used, str) ELSE c)
             EXCEPT !.used = @ + Len(str), !.rv = 0]

add_quote(c, quoteme) ==
    Try(add_ch(c, "\""), LAMBDA c1 :
    Try(addstr(c1, quoteme), LAMBDA c2 :
    Try(add_ch(c2, "\""), LAMBDA c3 : c3)))

add_attr(c, attr) ==
    Try(add_quote(c, attr), LAMBDA c1 :
    Try(add_ch(c1, ":"), LAMBDA c2 : c2))

\* the inner loop over JSER_PRETTY_STRING, then the outer loop over count
RECURSIVE add_indent_loop(_, _, _)
add_indent_loop(c, count, k) ==
    IF count = 0 THEN [c EXCEPT !.rv = 0]
    ELSE IF k > Len(JSER_PRETTY_STRING) THEN add_indent_loop(c, count - 1, 1)
    ELSE Try(add_ch(c, JSER_PRETTY_STRING[k]),
             LAMBDA c1 : add_indent_loop(c1, count, k + 1))

add_indent(c, count) ==
    IF c.pretty = 0 THEN [c EXCEPT !.rv = 0] ELSE add_indent_loop(c, count, 1)

add_space(c) == IF c.pretty = 0 THEN [c EXCEPT !.rv = 0] ELSE add_ch(c, " ")

add_newline(c) == IF c.pretty = 0 THEN [c EXCEPT !.rv = 0] ELSE add_ch(c, "\n")

add_i64(c, ld) == Try(addstr(c, i64_to_str(ld, 10)), LAMBDA c1 : c1)

add_u64(c, lu) == Try(addstr(c, u64_to_str(lu, 10)), LAMBDA c1 : c1)

add_bool(c, tf) ==
    Try(addstr(c, IF tf THEN <<"t", "r", "u", "e">> ELSE <<"f", "a", "l", "s", "e">>),
        LAMBDA c1 : c1)

\* the branch "if (sp->dry_run == 0)" of add_buffer up to the advance of b->used
add_buffer_encode(c, buf) ==
    IF c.dry_run = 0 /\ buf.length # 0
    THEN Let(jser_base64_encode(SubSeq(buf.buf, 1, buf.used), c.length), LAMBDA enc :
             IF enc.rv < 0 THEN on_error(c, JSER_ERR_BASE64)
             ELSE [StoreRun(c, c.used, enc.out) EXCEPT !.rv = 0])
    ELSE [c EXCEPT !.rv = 0]

add_buffer(c, buf) ==
    Try(add_ch(c, "\""), LAMBDA c1 :
        IF (c1.length - c1.used) < base64_encoded_size(buf.length)
        THEN on_error(c1, JSER_ERR_SPACE)
        ELSE Keep(add_buffer_encode(c1, buf), LAMBDA c2 :
             Try(add_ch([c2 EXCEPT !.used = @ + base64_encoded_size(buf.used)], "\""),
                 LAMBDA c3 : c3)))

\* the variable read through u->ld[index], u->lu[index], u->b[index], u->asciiz, u->buf[index]
ValueAt(e, index) ==
    IF e.is_array /\ e.type # JSER_ASCIIZ_E THEN e.data[index + 1] ELSE e.data

add_value(c, e, index) ==
    CASE e.type = JSER_LONG_E -> add_i64(c, ValueAt(e, index))
      [] e.type = JSER_ULONG_E -> add_u64(c, ValueAt(e, index))
      [] e.type = JSER_BOOL_E -> add_bool(c, ValueAt(e, index))
      [] e.type = JSER_ASCIIZ_E ->
           IF index # 0 THEN on_error(c, JSER_ERR_CONFIG)
           ELSE add_quote(c, ValueAt(e, index))
      [] e.type = JSER_BUFFER_E -> add_buffer(c, ValueAt(e, index))
      [] OTHER -> on_error(c, JSER_ERR_TYPE)

RECURSIVE jsonify(_, _, _, _, _)
RECURSIVE jsonify_loop(_, _, _, _, _, _)
RECURSIVE jsonify_element(_, _, _, _, _)
RECURSIVE addj(_, _, _)
RECURSIVE addj_loop(_, _, _)

\* the loop of addj over the e->used values of an is_array descriptor
addj_loop(c, e, i) ==
    IF i >= e.used THEN [c EXCEPT !.rv = 0]
    ELSE Try(add_value(c, e, i), LAMBDA c1 :
         Try(IF ~(i = e.used - 1) THEN add_ch(c1, ",") ELSE c1, LAMBDA c2 :
             addj_loop(c2, e, i + 1)))

addj(c, e, depth) ==
    IF e.type = JSER_OBJECT_E
    THEN IF e.is_array THEN on_error(c, JSER_ERR_CONFIG)
         ELSE TryZero(add_newline(c), LAMBDA c1 :
              Try(jsonify(c1, e.data, e.length, 0, depth + 1), LAMBDA c2 :
                  [c2 EXCEPT !.rv = 0]))
    ELSE IF e.type = JSER_ARRAY_E
    THEN TryZero(add_newline(c), LAMBDA c1 :
         Try(jsonify(c1, e.data, e.length, 1, depth + 1), LAMBDA c2 :
             [c2 EXCEPT !.rv = 0]))
    ELSE IF e.is_array
    THEN Try(add_ch(c, "["), LAMBDA c1 :
         Try(addj_loop(c1, e, 0), LAMBDA c2 :
         Try(add_ch(c2, "]"), LAMBDA c3 : c3)))
    ELSE Try(add_value(c, e, 0), LAMBDA c1 : c1)

\* jsonify_element that puts a comma after the last element too
jsonify_element_comma_always(c, e, last, is_array, depth) ==
    IF e.null THEN on_error(c, JSER_ERR_CONFIG)
    ELSE TryZero(add_indent(c, depth + 1), LAMBDA c1 :
         Try(IF is_array = 0 THEN add_attr(c1, e.attr) ELSE c1, LAMBDA c2 :
         TryZero(IF is_array = 0 THEN add_space(c2) ELSE c2, LAMBDA c3 :
         Try(addj(c3, e, depth), LAMBDA c4 :
         Try(add_ch(c4, ","), LAMBDA c5 :
         TryZero(add_newline(c5), LAMBDA c6 : c6))))))

\* one pass of the for loop of jsonify over j[i] (0-based i)
jsonify_element(c, e, last, is_array, depth) ==
    IF e.null THEN on_error(c, JSER_ERR_CONFIG)
    ELSE TryZero(add_indent(c, depth + 1), LAMBDA c1 :
         Try(IF is_array = 0 THEN add_attr(c1, e.attr) ELSE c1, LAMBDA c2 :
         TryZero(IF is_array = 0 THEN add_space(c2) ELSE c2, LAMBDA c3 :
         Try(addj(c3, e, depth), LAMBDA c4 :
         Try(IF ~last THEN add_ch(c4, ",") ELSE c4, LAMBDA c5 :
         TryZero(add_newline(c5), LAMBDA c6 : c6))))))

jsonify_loop(c, j, jlen, is_array, depth, i) ==
    IF i >= jlen THEN [c EXCEPT !.rv = 0]
    ELSE Keep(jsonify_element(c, j[i + 1], i = jlen - 1, is_array, depth), LAMBDA c1 :
              jsonify_loop(c1, j, jlen, is_array, depth, i + 1))

\* jsonify without the depth check
jsonify_unlimited(c, j, jlen, is_array, depth) ==
    TryZero(add_indent(c, depth), LAMBDA c1 :
         Try(add_ch(c1, IF is_array # 0 THEN "[" ELSE "{"), LAMBDA c2 :
         TryZero(add_newline(c2), LAMBDA c3 :
         Keep(jsonify_loop(c3, j, jlen, is_array, depth, 0), LAMBDA c4 :
         TryZero(add_indent(c4, depth), LAMBDA c5 :
         Try(add_ch(c5, IF is_array # 0 THEN "]" ELSE "}"), LAMBDA c6 :
             [c6 EXCEPT !.rv = 0]))))))

jsonify(c, j, jlen, is_array, depth) ==
    IF c.max # 0 /\ depth > c.max THEN on_error(c, JSER_ERR_DEPTH)
    ELSE TryZero(add_indent(c, depth), LAMBDA c1 :
         Try(add_ch(c1, IF is_array # 0 THEN "[" ELSE "{"), LAMBDA c2 :
         TryZero(add_newline(c2), LAMBDA c3 :
         Keep(jsonify_loop(c3, j, jlen, is_array, depth, 0), LAMBDA c4 :
         TryZero(add_indent(c4, depth), LAMBDA c5 :
         Try(add_ch(c5, IF is_array # 0 THEN "]" ELSE "}"), LAMBDA c6 :
             [c6 EXCEPT !.rv = 0]))))))

\* the serialization entry points return [rv, b] / [rv, sz] / [rv, asciiz];
\* jser_serialize_to_buffer as built with JSER_MAX_DEPTH defined as max
jser_serialize_to_buffer_built(max, j, jlen, pretty, length) ==
    Let(jsonify(Context(max, boolify(pretty), 0, length), j, jlen, 0, 0),
        LAMBDA c : [rv |-> IF c.rv < 0 THEN c.error ELSE JSER_OK,
                    used |-> c.used, buf |-> c.buf, oob |-> c.oob])

jser_serialize_to_buffer(j, jlen, pretty, length) ==
    jser_serialize_to_buffer_built(JSER_MAX_DEPTH, j, jlen, pretty, length)

jser_serialized_length(j, jlen, pretty) ==
    Let(jsonify(Context(JSER_MAX_DEPTH, boolify(pretty), 1, SIZE_MAX), j, jlen, 0, 0),
        LAMBDA c : IF c.rv < 0 THEN [rv |-> c.error, sz |-> 0] ELSE [rv |-> 0, sz |-> c.used])

\* jser_serialize_to_asciiz that lets the text take all 'length' bytes
jser_serialize_to_asciiz_full(j, jlen, pretty, length) ==
    IF length < 1 THEN [rv |-> -1, asciiz |-> <<>>, oob |-> FALSE]
    ELSE Let(jsonify(Context(JSER_MAX_DEPTH, boolify(pretty), 0, length), j, jlen, 0, 0),
             LAMBDA c :
                 IF c.rv < 0
                 THEN [rv |-> c.error, oob |-> c.oob,
                       asciiz |-> <<NUL>> \o SubSeq(c.buf, 2, Len(c.buf))]
                 ELSE [rv |-> JSER_OK, asciiz |-> Append(c.buf, NUL),
                       oob |-> c.oob \/ (c.used + 1 > length)])

\* asciiz holds the bytes stored from index 0; oob is a store at an index >= length
jser_serialize_to_asciiz(j, jlen, pretty, length) ==
    IF length < 1 THEN [rv |-> -1, asciiz |-> <<>>, oob |-> FALSE]
    ELSE Let(jsonify(Context(JSER_MAX_DEPTH, boolify(pretty), 0, length - 1), j, jlen, 0, 0),
             LAMBDA c :
                 IF c.rv < 0
                 THEN [rv |-> c.error, oob |-> c.oob,
                       asciiz |-> <<NUL>> \o SubSeq(c.buf, 2, Len(c.buf))]
                 ELSE [rv |-> JSER_OK, asciiz |-> Append(c.buf, NUL),
                       oob |-> c.oob \/ (c.used + 1 > length)])

(***************************************************************************)
(* The tokenizer (jsmn.h, built with JSMN_PARENT_LINKS and without         *)
(* JSMN_STRICT).  A token is [type, start, end, size, parent]; the token   *)
(* array is a sequence whose entry k + 1 is the C entry k.                 *)
(***************************************************************************)
JSMN_UNDEFINED == "UNDEFINED"
JSMN_OBJECT == "OBJECT"
JSMN_ARRAY == "ARRAY"
JSMN_STRING == "STRING"
JSMN_PRIMITIVE == "PRIMITIVE"
JSMN_ERROR_NOMEM == -1
JSMN_ERROR_INVAL == -2
JSMN_ERROR_PART == -3

jsmntok_t(type, start, end, size, parent) ==
    [type |-> type, start |-> start, end |-> end, size |-> size, parent |-> parent]

\* a token after memset(t, 0, ...)
ZeroToken == jsmntok_t(JSMN_UNDEFINED, 0, 0, 0, 0)

\* js[pos] for a 0-based pos
CharAt(js, pos) == js[pos + 1]

HexChars == {DigitChars[k] : k \in 1..16} \cup {LowerHex[k] : k \in 1..6}

\* jsmn_alloc_token then jsmn_fill_token and the parent link, toknext < num_tokens
jsmn_alloc_token(ps, type, start, end) ==
    [ps EXCEPT !.tokens[ps.toknext + 1] = jsmntok_t(type, start, end, 0, ps.toksuper),
               !.toknext = @ + 1]

\* the scan of jsmn_parse_primitive: the position of the character ending it, or -1
RECURSIVE primitive_scan(_, _, _)
primitive_scan(js, len, pos) ==
    IF ~(pos < len /\ CharAt(js, pos) # NUL) THEN pos
    ELSE IF CharAt(js, pos) \in {":", "\t", "\r", "\n", " ", ",", "]", "}"} THEN pos
    ELSE IF CharAt(js, pos) = "\f" THEN -1
    ELSE primitive_scan(js, len, pos + 1)

jsmn_parse_primitive(ps, js, len, num_tokens) ==
    Let(primitive_scan(js, len, ps.pos), LAMBDA found :
        IF found < 0 THEN [r |-> JSMN_ERROR_INVAL, ps |-> ps]
        ELSE IF ps.toknext >= num_tokens THEN [r |-> JSMN_ERROR_NOMEM, ps |-> ps]
        ELSE [r |-> 0,
              ps |-> [jsmn_alloc_token(ps, JSMN_PRIMITIVE, ps.pos, found)
                        EXCEPT !.pos = found - 1]])

\* the scan of jsmn_parse_string from pos: the position of the closing quote,
\* or JSMN_ERROR_INVAL, or JSMN_ERROR_PART
RECURSIVE string_scan(_, _, _)
string_scan(js, len, pos) ==
    IF ~(pos < len /\ CharAt(js, pos) # NUL) THEN JSMN_ERROR_PART
    ELSE IF CharAt(js, pos) = "\"" THEN pos
    ELSE IF CharAt(js, pos) = "\\" /\ pos + 1 < len
    THEN IF CharAt(js, pos + 1) \in {"\"", "/", "\\", "b", "f", "r", "n", "t"}
         THEN string_scan(js, len, pos + 2)
         ELSE IF CharAt(js, pos + 1) = "u"
         THEN LET n == CHOOSE n \in 0..4 :
                         /\ \A k \in 1..n : pos + 1 + k < len
                                            /\ CharAt(js, pos + 1 + k) # NUL
                         /\ (n = 4 \/ ~(pos + 2 + n < len /\ CharAt(js, pos + 2 + n) # NUL))
              IN  IF \E k \in 1..n : CharAt(js, pos + 1 + k) \notin HexChars
                  THEN JSMN_ERROR_INVAL
                  ELSE string_scan(js, len, pos + 2 + n)
         ELSE JSMN_ERROR_INVAL
    ELSE string_scan(js, len, pos + 1)

jsmn_parse_string(ps, js, len, num_tokens) ==
    Let(string_scan(js, len, ps.pos + 1), LAMBDA q :
        IF q < 0 THEN [r |-> q, ps |-> ps]
        ELSE IF ps.toknext >= num_tokens THEN [r |-> JSMN_ERROR_NOMEM, ps |-> ps]
        ELSE [r |-> 0,
              ps |-> [jsmn_alloc_token(ps, JSMN_STRING, ps.pos + 1, q) EXCEPT !.pos = q]])

\* the for (;;) loop of the closing bracket: [r, ps]
RECURSIVE jsmn_close(_, _, _)
jsmn_close(ps, type, k) ==
    LET token == ps.tokens[k + 1]
    IN  IF token.start # -1 /\ token.end = -1
        THEN IF token.type # type THEN [r |-> JSMN_ERROR_INVAL, ps |-> ps]
             ELSE [r |-> 0, ps |-> [ps EXCEPT !.tokens[k + 1].end = ps.pos + 1,
                                              !.toksuper = token.parent]]
        ELSE IF token.parent = -1
        THEN IF token.type # type \/ ps.toksuper = -1
             THEN [r |-> JSMN_ERROR_INVAL, ps |-> ps]
             ELSE [r |-> 0, ps |-> ps]
        ELSE jsmn_close(ps, type, token.parent)

\* tokens[toksuper].size++ when there is a super token
BumpSuper(ps, super) ==
    IF super # -1 THEN [ps EXCEPT !.tokens[super + 1].size = @ + 1] ELSE ps

\* "count++; if (parser->toksuper != -1 && tokens != NULL) tokens[toksuper].size++;"
\* after a string or a primitive was parsed with result s
Counted(s) ==
    IF s.r < 0 THEN s
    ELSE [r |-> 0, ps |-> [BumpSuper(s.ps, s.ps.toksuper) EXCEPT !.count = @ + 1]]

\* one pass of the loop of jsmn_parse on the character c at ps.pos: [r, ps]
jsmn_case(ps, js, len, num_tokens, c) ==
    IF c = "{" \/ c = "["
    THEN IF ps.toknext >= num_tokens THEN [r |-> JSMN_ERROR_NOMEM, ps |-> ps]
         ELSE Let(jsmn_alloc_token(ps, IF c = "{" THEN JSMN_OBJECT ELSE JSMN_ARRAY, ps.pos, -1),
                  LAMBDA p1 : [r |-> 0, ps |-> [BumpSuper(p1, ps.toksuper)
                                                  EXCEPT !.toksuper = p1.toknext - 1,
                                                         !.count = @ + 1]])
    ELSE IF c = "}" \/ c = "]"
    THEN IF ps.toknext < 1 THEN [r |-> JSMN_ERROR_INVAL, ps |-> ps]
         ELSE jsmn_close(ps, IF c = "}" THEN JSMN_OBJECT ELSE JSMN_ARRAY, ps.toknext - 1)
    ELSE IF c = "\"" THEN Counted(jsmn_parse_string(ps, js, len, num_tokens))
    ELSE IF c \in {"\t", "\r", "\n", " "} THEN [r |-> 0, ps |-> ps]
    ELSE IF c = ":" THEN [r |-> 0, ps |-> [ps EXCEPT !.toksuper = ps.toknext - 1]]
    ELSE IF c = ","
    THEN IF ps.toksuper # -1
            /\ ps.tokens[ps.toksuper + 1].type # JSMN_ARRAY
            /\ ps.tokens[ps.toksuper + 1].type # JSMN_OBJECT
         THEN [r |-> 0, ps |-> [ps EXCEPT !.toksuper = ps.tokens[ps.toksuper + 1].parent]]
         ELSE [r |-> 0, ps |-> ps]
    ELSE Counted(jsmn_parse_primitive(ps, js, len, num_tokens))

jsmn_step(ps, js, len, num_tokens) == jsmn_case(ps, js, len, num_tokens, CharAt(js, ps.pos))

RECURSIVE jsmn_loop(_, _, _, _)
jsmn_loop(ps, js, len, num_tokens) ==
    IF ~(ps.pos < len /\ CharAt(js, ps.pos) # NUL) THEN [r |-> 0, ps |-> ps]
    ELSE Let(jsmn_step(ps, js, len, num_tokens), LAMBDA s :
             IF s.r < 0 THEN s
             ELSE jsmn_loop([s.ps EXCEPT !.pos = @ + 1], js, len, num_tokens))

\* "for (i = parser->toknext - 1; i >= 0; i--)": some token is still open
Unmatched(ps) ==
    \E k \in 1..ps.toknext : ps.tokens[k].start # -1 /\ ps.tokens[k].end = -1

\* jsmn_parse on a zeroed array t of num_tokens tokens: [rv, t]
jsmn_parse(js, len, t, num_tokens) ==
    Let(jsmn_loop([pos |-> 0, toknext |-> 0, toksuper |-> -1, tokens |-> t, count |-> 0],
                  js, len, num_tokens),
        LAMBDA s : IF s.r < 0 THEN [rv |-> s.r, t |-> s.ps.tokens]
                   ELSE IF Unmatched(s.ps) THEN [rv |-> JSMN_ERROR_PART, t |-> s.ps.tokens]
                   ELSE [rv |-> s.ps.count, t |-> s.ps.tokens])

(***************************************************************************)
(* Deserialization.  The token array t and the text json are read only;    *)
(* a token pointer is the index of the token in t.  Each function returns  *)
(*   [rv, error, v, fault]                                                 *)
(* with the C return value, the error latch sp->error, the descriptor (or  *)
(* descriptor array) as the call leaves it, and how the call ended:        *)
(*   "none"  it returned,                                                  *)
(*   "ub"    it read a token outside t or used a descriptor outside its    *)
(*           array (undefined behaviour),                                  *)
(*   "abort" an assert() failed,                                           *)
(*   "hang"  it entered a loop whose state repeats.                        *)
(***************************************************************************)
Ret(rv, error, v) == [rv |-> rv, error |-> error, v |-> v, fault |-> "none"]

Fault(kind, error, v) == [rv |-> 0, error |-> error, v |-> v, fault |-> kind]

\* on_error of the deserialization context
Latch(error, e) == IF error # 0 THEN error ELSE e

\* the descriptor "at" an index past the end of its array
NoDesc == [attr |-> <<>>, type |-> "NONE", length |-> 0, used |-> 0,
           is_array |-> FALSE, null |-> TRUE, data |-> 0]

InTokens(t, idx) == idx >= 0 /\ idx < Len(t)

\* the bytes json[start .. end - 1] of a token
Span(json, p) == SubSeq(json, p.start + 1, p.end)

\* find_element that stops at the first descriptor whatever its name
find_element_first(j, jlen, json, tk) == IF jlen > 0 THEN 0 ELSE -1

find_element(j, jlen, json, tk) ==
    LET hits == {i \in 0..(jlen - 1) : j[i + 1].attr = Span(json, tk)}
    IN  IF hits = {} THEN -1 ELSE CHOOSE i \in hits : \A k \in hits : i <= k

\* distance(&t[at], ts): [r, ub], ub when it reads outside t
RECURSIVE distance(_, _, _)
RECURSIVE distance_object(_, _, _, _, _)
RECURSIVE distance_array(_, _, _, _, _)

distance_object(t, at, ts, i, r) ==
    IF i >= ts THEN [r |-> r, ub |-> FALSE]
    ELSE IF ~InTokens(t, at + i) THEN [r |-> -1, ub |-> TRUE]
    ELSE IF t[at + i + 1].type # JSMN_STRING THEN [r |-> -1, ub |-> FALSE]
    ELSE IF (i + 1) >= ts THEN [r |-> -1, ub |-> FALSE]
    ELSE IF ~InTokens(t, at + i + 1) THEN [r |-> -1, ub |-> TRUE]
    ELSE IF t[at + i + 2].type \in {JSMN_OBJECT, JSMN_ARRAY}
    THEN Let(distance(t, at + i + 1, t[at + i + 2].size), LAMBDA st :
             IF st.ub \/ st.r < 0 THEN [r |-> -1, ub |-> st.ub]
             ELSE distance_object(t, at, ts, i + st.r + 2, r + st.r + 1))
    ELSE distance_object(t, at, ts, i + 2, r + 2)

distance_array(t, at, ts, i, r) ==
    IF i >= ts THEN [r |-> r, ub |-> FALSE]
    ELSE IF ~InTokens(t, at + i) THEN [r |-> -1, ub |-> TRUE]
    ELSE IF t[at + i + 1].type \in {JSMN_OBJECT, JSMN_ARRAY}
    THEN IF ~InTokens(t, at + i + 1) THEN [r |-> -1, ub |-> TRUE]
         ELSE Let(distance(t, at + i + 1, t[at + i + 2].size), LAMBDA st :
                  IF st.ub \/ st.r < 0 THEN [r |-> -1, ub |-> st.ub]
                  ELSE distance_array(t, at, ts, i + st.r + 1, r + st.r))
    ELSE distance_array(t, at, ts, i + 1, r)

distance(t, at, ts) ==
    IF ts = 0 THEN [r |-> -1, ub |-> FALSE]
    ELSE IF ~InTokens(t, at) THEN [r |-> -1, ub |-> TRUE]
    ELSE CASE t[at + 1].type \in {JSMN_STRING, JSMN_PRIMITIVE} -> [r |-> 1, ub |-> FALSE]
           [] t[at + 1].type = JSMN_OBJECT -> distance_object(t, at, ts, 1, 1)
           [] t[at + 1].type = JSMN_ARRAY -> distance_array(t, at, ts, 1, 1)
           [] OTHER -> [r |-> -1, ub |-> FALSE]

\* *e->data.ld = v, *e->data.lu = v, *e->data.b = v
SetValue(e, v) ==
    IF e.is_array THEN [e EXCEPT !.data[1] = v] ELSE [e EXCEPT !.data = v]

\* string_to_element that takes a token as long as the string variable
string_to_element_no_room(error, e, p, json) ==
    LET plen == p.end - p.start
    IN  IF e.type = JSER_ASCIIZ_E /\ ~e.is_array /\ e.length # 0 /\ plen = e.length
        THEN Ret(1, error, [e EXCEPT !.data = Span(json, p)])
        ELSE IF e.type = JSER_ASCIIZ_E /\ ~e.is_array /\ plen >= e.length
        THEN Ret(JSER_ERR_TYPE, Latch(error, JSER_ERR_TYPE), e)
        ELSE IF e.type = JSER_ASCIIZ_E /\ ~e.is_array
        THEN Ret(1, error, [e EXCEPT !.data = Span(json, p)])
        ELSE Ret(JSER_ERR_TYPE, Latch(error, JSER_ERR_TYPE), e)

\* the JSMN_STRING case of json_to_element
string_to_element(error, e, p, json) ==
    LET plen == p.end - p.start
    IN  IF e.type = JSER_BUFFER_E
        THEN Let(jser_base64_decode(Span(json, p), e.data.length), LAMBDA dec :
             Let(dec.out \o SubSeq(e.data.buf, Len(dec.out) + 1, Len(e.data.buf)), LAMBDA mem :
                 IF dec.rv # 0
                 THEN Ret(JSER_ERR_BASE64, Latch(error, JSER_ERR_BASE64),
                          [e EXCEPT !.data = jser_buffer_t(e.data.length, 0, mem)])
                 ELSE Ret(1, error,
                          [e EXCEPT !.data = jser_buffer_t(e.data.length, dec.olen, mem)])))
        ELSE IF e.type = JSER_ASCIIZ_E
        THEN IF e.is_array THEN Ret(JSER_ERR_CONFIG, Latch(error, JSER_ERR_CONFIG), e)
             ELSE IF e.length = 0 THEN Ret(JSER_ERR_TYPE, Latch(error, JSER_ERR_TYPE), e)
             ELSE IF plen >= e.length THEN Ret(JSER_ERR_TYPE, Latch(error, JSER_ERR_TYPE), e)
             ELSE Ret(1, error, [e EXCEPT !.data = Span(json, p)])
        ELSE Ret(JSER_ERR_TYPE, Latch(error, JSER_ERR_TYPE), e)

IsPrefix(lit, str) == Len(str) >= Len(lit) /\ SubSeq(str, 1, Len(lit)) = lit

\* the JSMN_PRIMITIVE case of json_to_element
primitive_to_element(error, e, p, json) ==
    LET plen == p.end - p.start
        text == Span(json, p)
        first == CharAt(json, p.start)
        type_error == Ret(JSER_ERR_TYPE, Latch(error, JSER_ERR_TYPE), e)
        number_error == Ret(JSER_ERR_NUMBER, Latch(error, JSER_ERR_NUMBER), e)
    IN  IF first = "n" THEN type_error
        ELSE IF first = "t"
        THEN IF e.type # JSER_BOOL_E THEN type_error
             ELSE IF plen < 4 \/ ~IsPrefix(<<"t", "r", "u", "e">>, text) THEN type_error
             ELSE Ret(1, error, SetValue(e, TRUE))
        ELSE IF first = "f"
        THEN IF e.type # JSER_BOOL_E THEN type_error
             ELSE IF plen < 5 \/ ~IsPrefix(<<"f", "a", "l", "s", "e">>, text) THEN type_error
             ELSE Ret(1, error, SetValue(e, FALSE))
        ELSE IF first = "-" \/ (\E k \in 1..10 : DigitChars[k] = first)
        THEN IF e.type = JSER_ULONG_E
             THEN Let(str_to_u64(text, 10), LAMBDA ud :
                      IF ud.rv < 0 THEN number_error ELSE Ret(1, error, SetValue(e, ud.out)))
             ELSE IF e.type = JSER_LONG_E
             THEN Let(str_to_i64(text, 10), LAMBDA ld :
                      IF ld.rv < 0 THEN number_error ELSE Ret(1, error, SetValue(e, ld.out)))
             ELSE type_error
        ELSE Ret(JSER_ERR_PARSE, Latch(error, JSER_ERR_PARSE), e)

\* whether json_to_element reads or writes *e for the token p
TouchesElement(p, json) ==
    \/ p.type \in {JSMN_OBJECT, JSMN_ARRAY, JSMN_STRING}
    \/ /\ p.type = JSMN_PRIMITIVE
       /\ p.end - p.start >= 0
       /\ CharAt(json, p.start) \in {"t", "f", "-"} \cup {DigitChars[k] : k \in 1..10}

RECURSIVE dejsonify(_, _, _, _, _, _, _)
RECURSIVE dejsonify_loop(_, _, _, _, _, _, _, _)
RECURSIVE json_to_element(_, _, _, _, _, _)
RECURSIVE array_to_element(_, _, _, _, _, _, _, _)

\* the for loop of the JSMN_ARRAY case: p = &t[at], e->used already reset
array_to_element(error, e, t, at, tokens, json, i, k) ==
    IF i >= tokens
    THEN Ret(i, error, IF JSER_ENABLE_USED_SET # 0 THEN [e EXCEPT !.used = k] ELSE e)
    ELSE IF k > e.length THEN Ret(JSER_ERR_SPACE, Latch(error, JSER_ERR_SPACE), e)
    ELSE Let(json_to_element(error, IF k < Len(e.data) THEN e.data[k + 1] ELSE NoDesc,
                             t, at + i, tokens - i, json), LAMBDA r :
         Let(IF k < Len(e.data) THEN [e EXCEPT !.data[k + 1] = r.v] ELSE e, LAMBDA e1 :
             IF r.fault # "none" THEN Fault(r.fault, r.error, e1)
             ELSE IF r.rv < 0 THEN Ret(-1, r.error, e1)
             ELSE IF r.rv = 0
             THEN Ret(i, r.error, IF JSER_ENABLE_USED_SET # 0 THEN [e1 EXCEPT !.used = k] ELSE e1)
             ELSE array_to_element(r.error, e1, t, at + 0, tokens, json, i + r.rv, k + 1)))

\* json_to_element(sp, e, &t[at], tokens, json)
json_to_element(error, e, t, at, tokens, json) ==
    IF ~InTokens(t, at) THEN Fault("ub", error, e)
    ELSE LET p == t[at + 1]
             plen == p.end - p.start
         IN  IF plen < 0 THEN Ret(JSER_ERR_UNKNOWN, Latch(error, JSER_ERR_UNKNOWN), e)
             ELSE IF e.type = "NONE" /\ TouchesElement(p, json) THEN Fault("ub", error, e)
             ELSE IF p.type = JSMN_OBJECT
             THEN IF ~(p.size >= 0 /\ (p.size * 2) <= tokens) THEN Fault("abort", error, e)
                  ELSE IF ~IsContainer(e) /\ e.used > 0 THEN Fault("ub", error, e)
                  ELSE Let(dejsonify(error, IF IsContainer(e) THEN e.data ELSE <<>>,
                                     e.used, t, at, p.size * 2, json), LAMBDA r :
                       Let(IF IsContainer(e) THEN [e EXCEPT !.data = r.v] ELSE e, LAMBDA e1 :
                           IF r.fault # "none" THEN Fault(r.fault, r.error, e1)
                           ELSE IF r.rv < 0 THEN Ret(-1, r.error, e1)
                           ELSE Ret(r.rv, r.error, e1)))
             ELSE IF p.type = JSMN_ARRAY
             THEN IF e.type # JSER_ARRAY_E THEN Ret(-1, error, e)
                  ELSE array_to_element(error,
                           IF JSER_ENABLE_USED_SET # 0 THEN [e EXCEPT !.used = 0] ELSE e,
                           t, at, tokens, json, 1, 0)
             ELSE IF p.type = JSMN_STRING THEN string_to_element(error, e, p, json)
             ELSE IF p.type = JSMN_PRIMITIVE THEN primitive_to_element(error, e, p, json)
             ELSE Ret(0, error, e)

\* the for loop of dejsonify: token = &t[at]
dejsonify_loop(error, j, jlen, t, at, tokens, json, i) ==
    IF i >= tokens THEN Ret(i, error, j)
    ELSE IF ~InTokens(t, at + i) THEN Fault("ub", error, j)
    ELSE LET tk == t[at + i + 1]
         IN  IF tk.type = JSMN_UNDEFINED THEN Ret(0, error, j)
             ELSE IF tk.type = JSMN_STRING
             THEN Let(find_element(j, jlen, json, tk), LAMBDA element :
                      IF element < 0
                      THEN IF (i + 1) >= tokens THEN Ret(JSER_ERR_LENGTH, error, j)
                           ELSE IF ~InTokens(t, at + i + 1) THEN Fault("ub", error, j)
                           ELSE IF t[at + i + 2].type = JSMN_UNDEFINED
                           THEN Fault("abort", error, j)
                           ELSE Let(distance(t, at + i, tk.size), LAMBDA st :
                                    IF st.ub THEN Fault("ub", error, j)
                                    ELSE IF i + st.r + 1 <= i THEN Fault("hang", error, j)
                                    ELSE dejsonify_loop(error, j, jlen, t, at, tokens, json,
                                                        i + st.r + 1))
                      ELSE Let(json_to_element(error, j[element + 1], t, at + i + 1,
                                               tokens - i, json), LAMBDA r :
                           Let([j EXCEPT ![element + 1] = r.v], LAMBDA j1 :
                               IF r.fault # "none" THEN Fault(r.fault, r.error, j1)
                               ELSE IF r.rv < 1
                               THEN Ret(JSER_ERR_UNKNOWN, Latch(r.error, JSER_ERR_UNKNOWN), j1)
                               ELSE dejsonify_loop(r.error, j1, jlen, t, at, tokens, json,
                                                   i + r.rv + 1))))
             ELSE Ret(JSER_ERR_UNKNOWN, Latch(error, JSER_ERR_UNKNOWN), j)

\* dejsonify(sp, j, jlen, &t[at], tokens, json)
dejsonify(error, j, jlen, t, at, tokens, json) ==
    IF ~InTokens(t, at) THEN Fault("ub", error, j)
    ELSE IF t[at + 1].type = JSMN_UNDEFINED THEN Ret(0, error, j)
    ELSE IF t[at + 1].type # JSMN_OBJECT /\ t[at + 1].type # JSMN_ARRAY
    THEN Ret(JSER_ERR_PARSE, Latch(error, JSER_ERR_PARSE), j)
    ELSE dejsonify_loop(error, j, jlen, t, at, tokens, json, 1)

\* jser_deserialize_from_buffer that binds the tokens made so far before it
\* looks at the tokenizer's result
jser_deserialize_from_buffer_unguarded(j, jlen, tokens, buf, used) ==
    Let(jsmn_parse(buf, used, [k \in 1..tokens |-> ZeroToken], tokens), LAMBDA jp :
    Let(dejsonify(0, j, jlen, jp.t, 0, tokens, buf), LAMBDA r :
        [rv |-> CASE jp.rv = JSMN_ERROR_NOMEM -> JSER_ERR_SPACE
                  [] jp.rv = JSMN_ERROR_INVAL -> JSER_ERR_PARSE
                  [] jp.rv = JSMN_ERROR_PART -> JSER_ERR_MORE_DAT
                  [] jp.rv < 0 -> JSER_ERR_UNKNOWN
                  [] OTHER -> IF r.error < 0 THEN r.error ELSE r.rv,
         j |-> r.v, fault |-> r.fault, parsed |-> jp.rv]))

\* [rv, j, fault, parsed]: the status, the tree as the call leaves it, how the
\* call ended, and the tokenizer's result
jser_deserialize_from_buffer(j, jlen, tokens, buf, used) ==
    Let(jsmn_parse(buf, used, [k \in 1..tokens |-> ZeroToken], tokens), LAMBDA jp :
        IF jp.rv < 0
        THEN [rv |-> CASE jp.rv = JSMN_ERROR_NOMEM -> JSER_ERR_SPACE
                       [] jp.rv = JSMN_ERROR_INVAL -> JSER_ERR_PARSE
                       [] jp.rv = JSMN_ERROR_PART -> JSER_ERR_MORE_DAT
                       [] OTHER -> JSER_ERR_UNKNOWN,
              j |-> j, fault |-> "none", parsed |-> jp.rv]
        ELSE Let(dejsonify(0, j, jlen, jp.t, 0, tokens, buf), LAMBDA r :
                 [rv |-> IF r.error < 0 THEN r.error ELSE r.rv,
                  j |-> r.v, fault |-> r.fault, parsed |-> jp.rv]))

\* the text up to its terminator
strlen(asciiz) ==
    IF \E k \in 1..Len(asciiz) : asciiz[k] = NUL
    THEN (CHOOSE k \in 1..Len(asciiz) : asciiz[k] = NUL /\ \A m \in 1..(k - 1) : asciiz[m] # NUL) - 1
    ELSE Len(asciiz)

jser_deserialize_from_asciiz(j, jlen, tokens, asciiz) ==
    jser_deserialize_from_buffer(j, jlen, tokens, asciiz, strlen(asciiz))

(***************************************************************************)
(* Node retrieval and tree walking.  A pointer to a descriptor is the      *)
(* sequence of the 0-based indices that lead to it from the top level;     *)
(* NULL is the pointer to none.                                            *)
(***************************************************************************)
NULL == <<>>

\* "while (*path == '/') path++;"
RECURSIVE skip_slashes(_)
skip_slashes(path) ==
    IF path # <<>> /\ Head(path) = "/" THEN skip_slashes(Tail(path)) ELSE path

\* nl = end - path, end being strchr(path, '/') or the terminator of path
RECURSIVE name_length(_)
name_length(path) ==
    IF path = <<>> \/ Head(path) = "/" THEN 0 ELSE 1 + name_length(Tail(path))

RECURSIVE jser_node_finder(_, _, _, _, _, _, _)
RECURSIVE node_finder_loop(_, _, _, _, _, _, _, _)

RECURSIVE node_finder_loop_prefix(_, _, _, _, _, _, _, _)

\* node_finder_loop without "if (al != nl) continue;": the attribute is
\* compared with as many characters of the path as it has itself
node_finder_loop_prefix(max, j, jlen, at, path, nl, depth, i) ==
    IF i >= jlen THEN [rv |-> 0, found |-> NULL]
    ELSE IF Len(j[i + 1].attr) > Len(path)
            \/ j[i + 1].attr # SubSeq(path, 1, Len(j[i + 1].attr))
    THEN node_finder_loop_prefix(max, j, jlen, at, path, nl, depth, i + 1)
    ELSE IF nl = Len(path) THEN [rv |-> 1, found |-> Append(at, i)]
    ELSE IF j[i + 1].type # JSER_OBJECT_E THEN [rv |-> 0, found |-> NULL]
    ELSE jser_node_finder(max, j[i + 1].data, j[i + 1].used, Append(at, i), NULL,
                          SubSeq(path, nl + 2, Len(path)), depth + 1)

\* the for loop of jser_node_finder over j[i]; at is the pointer to j's
\* parent, path starts at the name looked for, of nl characters
node_finder_loop(max, j, jlen, at, path, nl, depth, i) ==
    IF i >= jlen THEN [rv |-> 0, found |-> NULL]
    ELSE IF Len(j[i + 1].attr) # nl THEN node_finder_loop(max, j, jlen, at, path, nl, depth, i + 1)
    ELSE IF j[i + 1].attr # SubSeq(path, 1, nl)
    THEN node_finder_loop(max, j, jlen, at, path, nl, depth, i + 1)
    ELSE IF nl = Len(path) THEN [rv |-> 1, found |-> Append(at, i)]
    ELSE IF j[i + 1].type # JSER_OBJECT_E THEN [rv |-> 0, found |-> NULL]
    ELSE jser_node_finder(max, j[i + 1].data, j[i + 1].used, Append(at, i), NULL,
                          SubSeq(path, nl + 2, Len(path)), depth + 1)

\* max is sp->max, which jser_retrieve_node sets to JSER_MAX_DEPTH, the
\* value depth is compared with; found is *found as the call finds it
jser_node_finder(max, j, jlen, at, found, path, depth) ==
    IF max # 0 /\ depth > max THEN [rv |-> JSER_ERR_DEPTH, found |-> found]
    ELSE IF path = <<>> THEN [rv |-> 0, found |-> NULL]
    ELSE node_finder_loop(max, j, jlen, at, skip_slashes(path),
                          name_length(skip_slashes(path)), depth, 0)

jser_retrieve_node(j, jlen, found, path) ==
    jser_node_finder(JSER_MAX_DEPTH, j, jlen, <<>>, found, path, 0)

\* the visitors handed to jser_walk_tree, by name: fn_walk_tree_count, and a
\* caller's visitor that notes the descriptor it is given and fails at the
\* call number param.stop; e is the pointer to the descriptor
fn_walk_tree_count(e, param) == [rv |-> 0, param |-> [param EXCEPT !.nodes = @ + 1]]

fn_note(e, param) ==
    IF Len(param.seen) + 1 = param.stop
    THEN [rv |-> -1, param |-> [param EXCEPT !.seen = Append(@, e)]]
    ELSE [rv |-> 0, param |-> [param EXCEPT !.seen = Append(@, e)]]

\* "fn(e, param)"
fn_call(fn, e, param) ==
    IF fn = "fn_walk_tree_count" THEN fn_walk_tree_count(e, param) ELSE fn_note(e, param)

RECURSIVE jser_walk_tree(_, _, _, _, _)
RECURSIVE walk_tree_loop(_, _, _, _, _, _)
RECURSIVE walk_tree_children(_, _, _, _, _, _)

\* walk_tree_children that walks every child the container has room for
walk_tree_children_all(j, jlen, at, fn, param, i) ==
    Let(jser_walk_tree(j[i + 1].data, j[i + 1].length, Append(at, i), fn, param), LAMBDA w :
        IF w.rv < 0 THEN [rv |-> -1, param |-> w.param]
        ELSE walk_tree_loop(j, jlen, at, fn, w.param, i + 1))

\* the recursion into a container and the rest of the loop after it
walk_tree_children(j, jlen, at, fn, param, i) ==
    Let(jser_walk_tree(j[i + 1].data, j[i + 1].used, Append(at, i), fn, param), LAMBDA w :
        IF w.rv < 0 THEN [rv |-> -1, param |-> w.param]
        ELSE walk_tree_loop(j, jlen, at, fn, w.param, i + 1))

\* the for loop of jser_walk_tree; at is the pointer to j's parent
walk_tree_loop(j, jlen, at, fn, param, i) ==
    IF i >= jlen THEN [rv |-> 0, param |-> param]
    ELSE Let(fn_call(fn, Append(at, i), param), LAMBDA v :
             IF v.rv < 0 THEN [rv |-> -1, param |-> v.param]
             ELSE IF IsContainer(j[i + 1])
             THEN walk_tree_children(j, jlen, at, fn, v.param, i)
             ELSE walk_tree_loop(j, jlen, at, fn, v.param, i + 1))

jser_walk_tree(j, jlen, at, fn, param) == walk_tree_loop(j, jlen, at, fn, param, 0)

\* counter_t, with the fields of the caller's visitor
counter_t == [nodes |-> 0, seen |-> <<>>, stop |-> 0]

\* rv and *jlen
jser_node_count(j, jlen) ==
    Let(jser_walk_tree(j, jlen, <<>>, "fn_walk_tree_count", counter_t), LAMBDA r :
        IF r.rv < 0 THEN [rv |-> -1, jlen |-> 0] ELSE [rv |-> 0, jlen |-> r.param.nodes])

\* "pool[k] = *s" and "pool[k].data.jser = &pool[k + 1]" on the pool
\* P = [pool, oob]: pool the caller's entries, oob a store at an index past them
pool_store(P, idx, e) ==
    IF idx < Len(P.pool) THEN [P EXCEPT !.pool[idx + 1] = e] ELSE [P EXCEPT !.oob = TRUE]

pool_point(P, idx, to) ==
    IF idx < Len(P.pool) THEN [P EXCEPT !.pool[idx + 1].data = [pool |-> to]]
    ELSE [P EXCEPT !.oob = TRUE]

RECURSIVE copy(_, _, _, _, _)
RECURSIVE copy_loop(_, _, _, _, _, _, _)
RECURSIVE copy_children(_, _, _, _, _, _, _)

\* the case of a container: the recursive copy, its checks, and the rest of
\* the loop; the pool handed down is &pool[k] with the same plen
copy_children(src, slen, P, base, plen, i, k) ==
    Let(copy(src[i + 1].data, src[i + 1].used, P, base + k, plen), LAMBDA r :
        IF r.rv < 0 THEN [rv |-> -1, P |-> r.P]
        ELSE IF k < k + r.rv THEN [rv |-> -1, P |-> r.P]
        ELSE copy_loop(src, slen,
                       IF r.rv # 0 THEN pool_point(r.P, base + k, base + k + 1) ELSE r.P,
                       base, plen, i + 1, k + r.rv))

\* the for loop of copy; base is the index in the caller's pool of pool[0]
copy_loop(src, slen, P, base, plen, i, k) ==
    IF i >= slen THEN [rv |-> k, P |-> P]
    ELSE IF k >= plen THEN [rv |-> -1, P |-> P]
    ELSE IF IsContainer(src[i + 1])
    THEN copy_children(src, slen, pool_store(P, base + k, src[i + 1]), base, plen, i, k)
    ELSE copy_loop(src, slen, pool_store(P, base + k, src[i + 1]), base, plen, i + 1, k + 1)

copy(src, slen, P, base, plen) == copy_loop(src, slen, P, base, plen, 0, 0)

\* rv, *plen, the pool, and whether a store went past it; pool holds the
\* *plen entries of the caller
jser_copy(src, slen, pool, plen) ==
    Let(copy(src, slen, [pool |-> pool, oob |-> FALSE], 0, plen), LAMBDA r :
        IF r.rv < 0 THEN [rv |-> -1, plen |-> 0, pool |-> r.P.pool, oob |-> r.P.oob]
        ELSE [rv |-> 0, plen |-> r.rv, pool |-> r.P.pool, oob |-> r.P.oob])

(***************************************************************************)
(* The caller's descriptor trees, after the ones of the library's tests    *)
(* (test_json_serialization, test_json_deserialization, test_jser_complex) *)
(* and of jser.md.  Every container holds exactly 'length' children.       *)
(***************************************************************************)
MK_LONG(attr, v) == jser_t(attr, JSER_LONG_E, 0, 0, FALSE, v)
MK_ULONG(attr, v) == jser_t(attr, JSER_ULONG_E, 0, 0, FALSE, v)
MK_BOOL(attr, v) == jser_t(attr, JSER_BOOL_E, 0, 0, FALSE, v)
MK_ASCIIZ(attr, v) == jser_t(attr, JSER_ASCIIZ_E, 0, 0, FALSE, v)
MK_BUF(attr, v) == jser_t(attr, JSER_BUFFER_E, 0, 0, FALSE, v)
MK_ARRAY(attr, x) == jser_t(attr, JSER_ARRAY_E, Len(x), Len(x), FALSE, x)
MK_OBJECT(attr, x) == jser_t(attr, JSER_OBJECT_E, Len(x), Len(x), FALSE, x)
\* a string variable with its size given, as deserialization needs it
MK_SIZED_ASCIIZ(attr, size, v) == jser_t(attr, JSER_ASCIIZ_E, size, 0, FALSE, v)
\* one descriptor over a packed run of scalars
MK_RUN(attr, type, x) == jser_t(attr, type, Len(x), Len(x), TRUE, x)

LongVals == <<0 - MaxVal, 0, MaxVal>>
ULongVals == <<0, MaxVal>>
BoolVals == <<TRUE, FALSE>>
StrVals == << <<>>, <<"H", "I">>, <<"A", "\t", "B">> >>
\* "HELLO\0"
HelloBytes == <<72, 69, 76, 76, 79, 0>>
BufVals == <<jser_buffer_t(0, 0, <<>>), jser_buffer_t(6, 6, HelloBytes),
             jser_buffer_t(6, 5, HelloBytes), jser_buffer_t(6, 3, HelloBytes),
             jser_buffer_t(3, 1, <<72, 69, 76>>)>>

\* the trees of one descriptor, as in test_json_serialization
SingleTrees ==
    [k \in 1..Len(LongVals) |-> <<MK_LONG(<<"l", "1">>, LongVals[k])>>]
    \o [k \in 1..Len(ULongVals) |-> <<MK_ULONG(<<"u">>, ULongVals[k])>>]
    \o [k \in 1..Len(BoolVals) |-> <<MK_BOOL(<<"c">>, BoolVals[k])>>]
    \o [k \in 1..Len(StrVals) |-> <<MK_ASCIIZ(<<"s", "t", "r">>, StrVals[k])>>]
    \o [k \in 1..Len(BufVals) |-> <<MK_BUF(<<"b", "u", "f">>, BufVals[k])>>]

\* a, b, c of test_json_deserialization
FlatTrees ==
    [k \in 1..Len(LongVals) |->
        <<MK_LONG(<<"a">>, LongVals[k]), MK_LONG(<<"b">>, 2), MK_LONG(<<"c">>, 3)>>]

\* a flat tree over one variable of each kind
MixedTrees ==
    [k \in 1..Len(LongVals) |->
        <<MK_LONG(<<"a">>, LongVals[k]),
          MK_SIZED_ASCIIZ(<<"b">>, 4, <<"H", "I">>),
          MK_BOOL(<<"c">>, FALSE),
          MK_ULONG(<<"u">>, MaxVal),
          MK_BUF(<<"d">>, jser_buffer_t(6, 3, HelloBytes))>>]

\* nested objects and arrays, as in jser.md and test_jser_complex
NestedTrees ==
    [k \in 1..Len(LongVals) |->
        <<MK_OBJECT(<<"j">>, <<MK_LONG(<<"a">>, LongVals[k]), MK_LONG(<<"b">>, 2)>>),
          MK_LONG(<<"c">>, 3)>>]
    \o << <<MK_OBJECT(<<"o">>, <<MK_OBJECT(<<"p">>, <<MK_LONG(<<"q">>, 1)>>),
                                 MK_LONG(<<"r">>, 2)>>),
            MK_LONG(<<"a">>, 3)>>,
          <<MK_LONG(<<"a">>, 1), MK_ARRAY(<<"r">>, <<MK_LONG(<<>>, 3), MK_LONG(<<>>, 4)>>)>>,
          <<MK_ARRAY(<<"r">>, <<MK_LONG(<<>>, 3), MK_LONG(<<>>, 4)>>), MK_LONG(<<"a">>, 1)>>,
          <<MK_ARRAY(<<"r">>, <<MK_ULONG(<<>>, MaxVal), MK_BOOL(<<>>, TRUE),
                                MK_ASCIIZ(<<>>, <<"H", "I">>)>>)>>,
          <<MK_ARRAY(<<"r">>, <<MK_OBJECT(<<>>, <<MK_LONG(<<"x">>, 1)>>),
                                MK_OBJECT(<<>>, <<MK_LONG(<<"x">>, 2)>>)>>)>>,
          <<MK_OBJECT(<<"j">>, <<>>), MK_ARRAY(<<"r">>, <<>>)>>,
          <<>> >>

RunTrees ==
    << <<MK_RUN(<<"h">>, JSER_LONG_E, <<1, 0 - MaxVal, 3>>)>>,
       <<MK_RUN(<<"h">>, JSER_BOOL_E, <<TRUE, FALSE>>), MK_LONG(<<"a">>, 1)>>,
       <<MK_RUN(<<"h">>, JSER_ULONG_E, <<>>)>> >>

Trees == SingleTrees \o FlatTrees \o MixedTrees \o NestedTrees \o RunTrees

(***************************************************************************)
(* The JSON documents handed to deserialization.  A value is               *)
(*   [t, s, m, val]: t its kind ("num", "bool", "str", "obj", "arr", or    *)
(* "none" for a key that has no value), s its text, m its members [k, v]   *)
(* (k = <<>> in an array), val what it denotes.                            *)
(***************************************************************************)
Num(s, val) == [t |-> "num", s |-> s, m |-> <<>>, val |-> val]
Bool(s, val) == [t |-> "bool", s |-> s, m |-> <<>>, val |-> val]
Str(s) == [t |-> "str", s |-> s, m |-> <<>>, val |-> s]
Obj(m) == [t |-> "obj", s |-> <<>>, m |-> m, val |-> 0]
Arr(a) == [t |-> "arr", s |-> <<>>, m |-> [k \in 1..Len(a) |-> [k |-> <<>>, v |-> a[k]]], val |-> 0]
NoValue == [t |-> "none", s |-> <<>>, m |-> <<>>, val |-> 0]
Pair(k, v) == [k |-> k, v |-> v]

RECURSIVE Render(_)
RECURSIVE RenderMembers(_, _, _)

RenderMembers(m, i, keyed) ==
    IF i > Len(m) THEN <<>>
    ELSE (IF i > 1 THEN <<",">> ELSE <<>>)
         \o (IF keyed THEN <<"\"">> \o m[i].k \o <<"\"">> ELSE <<>>)
         \o (IF keyed /\ m[i].v.t # "none" THEN <<":">> ELSE <<>>)
         \o Render(m[i].v)
         \o RenderMembers(m, i + 1, keyed)

\* the compact JSON text of a value
Render(v) ==
    CASE v.t \in {"num", "bool", "null", "word"} -> v.s
      [] v.t = "str" -> <<"\"">> \o v.s \o <<"\"">>
      [] v.t = "obj" -> <<"{">> \o RenderMembers(v.m, 1, TRUE) \o <<"}">>
      [] v.t = "arr" -> <<"[">> \o RenderMembers(v.m, 1, FALSE) \o <<"]">>
      [] OTHER -> <<>>

Four == Num(<<"4">>, 4)
MinusSeven == Num(<<"-", "7">>, -7)
True == Bool(<<"t", "r", "u", "e">>, TRUE)
Hi == Str(<<"h", "i">>)

FlatKeys == << <<"a">>, <<"b">>, <<"c">>, <<"x">> >>
FlatValues == <<Four, MinusSeven, True, Hi>>
FlatPairs ==
    [k \in 1..(Len(FlatKeys) * Len(FlatValues)) |->
        Pair(FlatKeys[((k - 1) \div Len(FlatValues)) + 1],
             FlatValues[((k - 1) % Len(FlatValues)) + 1])]

\* the flat objects of zero, one and two pairs
FlatDocs ==
    <<Obj(<<>>)>>
    \o [k \in 1..Len(FlatPairs) |-> Obj(<<FlatPairs[k]>>)]
    \o [k \in 1..(Len(FlatPairs) * Len(FlatPairs)) |->
          Obj(<<FlatPairs[((k - 1) \div Len(FlatPairs)) + 1],
                FlatPairs[((k - 1) % Len(FlatPairs)) + 1]>>)]

\* the values of a key no descriptor has
SkippedValues ==
    <<Obj(<<Pair(<<"b">>, Num(<<"5">>, 5))>>),
      Obj(<<Pair(<<"y">>, Obj(<<Pair(<<"z">>, Num(<<"1">>, 1))>>))>>),
      Obj(<<Pair(<<"y">>, Arr(<<Num(<<"1">>, 1)>>))>>),
      Arr(<<Num(<<"1">>, 1)>>),
      Arr(<<Num(<<"1">>, 1), Num(<<"2">>, 2)>>),
      Arr(<<Str(<<"a">>)>>),
      Arr(<<Arr(<<Num(<<"1">>, 1)>>)>>),
      Obj(<<>>),
      NoValue>>

\* an unknown key and its value before, and after, "a":4
SkipDocs ==
    [k \in 1..Len(SkippedValues) |->
        Obj(<<Pair(<<"x">>, SkippedValues[k]), Pair(<<"a">>, Four)>>)]
    \o [k \in 1..Len(SkippedValues) |->
        Obj(<<Pair(<<"a">>, Four), Pair(<<"x">>, SkippedValues[k])>>)]

\* documents for the nested trees
NestedDocs ==
    <<Obj(<<Pair(<<"j">>, Obj(<<Pair(<<"a">>, Four), Pair(<<"b">>, MinusSeven)>>)),
            Pair(<<"c">>, Four)>>),
      Obj(<<Pair(<<"o">>, Obj(<<Pair(<<"p">>, Obj(<<Pair(<<"q">>, Four)>>)),
                                Pair(<<"r">>, MinusSeven)>>)),
            Pair(<<"a">>, Four)>>),
      Obj(<<Pair(<<"a">>, Four), Pair(<<"r">>, Arr(<<Four, MinusSeven>>))>>),
      Obj(<<Pair(<<"r">>, Arr(<<Four, MinusSeven>>)), Pair(<<"a">>, Four)>>),
      Obj(<<Pair(<<"r">>, Arr(<<Four, MinusSeven, Four>>))>>),
      Obj(<<Pair(<<"r">>, Arr(<<>>))>>),
      Obj(<<Pair(<<"d">>, Str(<<"S", "E", "V", "M", "T", "E", "8", "=">>))>>),
      Obj(<<Pair(<<"a">>, NoValue)>>)>>

Docs == FlatDocs \o SkipDocs \o NestedDocs

\* how the text of a document is handed over: whole, without its last
\* character, or with its last character replaced by ']'
InputKinds == <<"whole", "cut", "bad">>

InputText(doc, kind) ==
    LET text == Render(doc)
    IN  CASE kind = "cut" -> SubSeq(text, 1, Len(text) - 1)
          [] kind = "bad" -> Append(SubSeq(text, 1, Len(text) - 1), "]")
          [] OTHER -> text

\* the number of tokens the tokenizer makes of a text when it has room
TokenCount(text) ==
    jsmn_loop([pos |-> 0, toknext |-> 0, toksuper |-> -1, count |-> 0,
               tokens |-> [k \in 1..Len(text) |-> ZeroToken]],
              text, Len(text), Len(text)).ps.toknext

(***************************************************************************)
(* The state: the caller's tree, the last length asked for, the last call  *)
(* that wrote or read JSON with its arguments and results, and whether the *)
(* caller can go on.                                                       *)
(***************************************************************************)
VARIABLES j, len, call, phase

vars == <<j, len, call, phase>>

NoLength == [valid |-> FALSE, pretty |-> 0, rv |-> 0, sz |-> 0]

NoCall == [op |-> "none", pretty |-> 0, cap |-> 0, rv |-> 0, used |-> 0,
           text |-> <<>>, oob |-> FALSE, fault |-> "none", parsed |-> 0,
           before |-> <<>>, doc |-> NoValue, kind |-> "none", tokens |-> 0]

\* the values a call that ran into undefined behaviour may return
UbReturns == {JSER_ERR_UNKNOWN, JSER_OK, 1}

\* the length the library reports for the tree, 0 where it reports none
Needed(tree, pretty) ==
    LET r == jser_serialized_length(tree, Len(tree), pretty)
    IN  IF r.rv = JSER_OK THEN r.sz ELSE 0

\* the capacities tried: none, and the ones around the needed length
Capacities(tree, pretty, extra) ==
    {0} \cup {c \in (Needed(tree, pretty) - 1)..(Needed(tree, pretty) + extra + MaxSlack) : c >= 0}

RECURSIVE Scrub(_)

\* a tree of the same shape whose every variable holds another value, with
\* room in each string variable for the text of the original
Scrub(tree) ==
    [k \in 1..Len(tree) |->
        LET e == tree[k]
            other(v) == CASE e.type = JSER_BOOL_E -> ~v
                          [] OTHER -> IF v = 0 THEN 1 ELSE 0
        IN  CASE IsContainer(e) -> [e EXCEPT !.data = Scrub(e.data)]
              [] e.is_array -> [e EXCEPT !.data = [n \in 1..Len(e.data) |-> other(e.data[n])]]
              [] e.type = JSER_ASCIIZ_E ->
                    [e EXCEPT !.length = 2 * Len(e.data) + 2, !.data = <<"?">>]
              [] e.type = JSER_BUFFER_E ->
                    [e EXCEPT !.data = jser_buffer_t(e.data.length, 0,
                                                     [n \in 1..e.data.length |-> 0])]
              [] OTHER -> [e EXCEPT !.data = other(e.data)]]

Init ==
    /\ \E n \in 1..Len(Trees) : j = Trees[n]
    /\ len = NoLength
    /\ call = NoCall
    /\ phase = "ready"

\* jser_serialized_length(j, jlen, pretty, &sz)
SerializedLength ==
    /\ phase = "ready"
    /\ \E pretty \in {0, 1} :
         LET r == jser_serialized_length(j, Len(j), pretty)
         IN  len' = [valid |-> TRUE, pretty |-> pretty, rv |-> r.rv, sz |-> r.sz]
    /\ UNCHANGED <<j, call, phase>>

\* jser_serialize_to_buffer(j, jlen, pretty, &b) on a buffer of cap bytes
SerializeToBuffer ==
    /\ phase = "ready"
    /\ \E pretty \in {0, 1} : \E cap \in Capacities(j, pretty, 0) :
         LET r == jser_serialize_to_buffer(j, Len(j), pretty, cap)
         IN  call' = [NoCall EXCEPT !.op = "buffer", !.pretty = pretty, !.cap = cap,
                                    !.rv = r.rv, !.used = r.used, !.text = r.buf,
                                    !.oob = r.oob]
    /\ UNCHANGED <<j, len, phase>>

\* jser_serialize_to_asciiz(j, jlen, pretty, asciiz, length)
SerializeToAsciiz ==
    /\ phase = "ready"
    /\ \E pretty \in {0, 1} : \E length \in Capacities(j, pretty, 1) :
         LET r == jser_serialize_to_asciiz(j, Len(j), pretty, length)
         IN  call' = [NoCall EXCEPT !.op = "asciiz", !.pretty = pretty, !.cap = length,
                                    !.rv = r.rv, !.used = strlen(r.asciiz),
                                    !.text = r.asciiz, !.oob = r.oob]
    /\ UNCHANGED <<j, len, phase>>

\* what a deserializing call leaves behind: r is the result of
\* jser_deserialize_from_asciiz, c the record of the call
Deserialized(r, c) ==
    /\ j' = r.j
    /\ len' = NoLength
    /\ phase' = CASE r.fault = "hang" -> "stuck"
                  [] r.fault = "abort" -> "dead"
                  [] OTHER -> "bound"
    /\ \E rv \in (IF r.fault = "ub" THEN UbReturns ELSE {r.rv}) :
         call' = [c EXCEPT !.rv = rv, !.fault = r.fault, !.parsed = r.parsed,
                           !.before = j]

\* jser_deserialize_from_asciiz(j, jlen, t, tokens, text) on a document.
\* The call reads nothing of the earlier calls but j, which serialization
\* leaves alone, so it is taken as the caller's first call.
DeserializeFromAsciiz ==
    /\ phase = "ready"
    /\ call = NoCall
    /\ len = NoLength
    /\ \E n \in 1..Len(Docs) : \E k \in 1..Len(InputKinds) : \E spare \in -1..MaxSpare :
         LET text == InputText(Docs[n], InputKinds[k])
             tokens == TokenCount(text) + spare
         IN  /\ tokens >= 1
             /\ Deserialized(jser_deserialize_from_asciiz(j, Len(j), tokens, Append(text, NUL)),
                             [NoCall EXCEPT !.op = "deserialize", !.doc = Docs[n],
                                            !.kind = InputKinds[k], !.tokens = tokens,
                                            !.cap = spare, !.text = text])

\* jser_deserialize_from_asciiz of the text the last call serialized, into
\* a scrubbed tree of the same shape
RoundTrip ==
    /\ phase = "ready"
    /\ call.op = "asciiz"
    /\ call.rv = JSER_OK
    /\ \E spare \in 1..MaxSpare :
         LET tokens == TokenCount(SubSeq(call.text, 1, call.used)) + spare
             r == jser_deserialize_from_asciiz(Scrub(j), Len(j), tokens, call.text)
         IN  Deserialized(r, [NoCall EXCEPT !.op = "roundtrip", !.pretty = call.pretty,
                                            !.tokens = tokens, !.cap = spare,
                                            !.text = call.text])

Next ==
    \/ SerializedLength
    \/ SerializeToBuffer
    \/ SerializeToAsciiz
    \/ DeserializeFromAsciiz
    \/ RoundTrip

Spec == Init /\ [][Next]_vars

(***************************************************************************)
(* The tree utilities and the codecs called on their own.  The state is    *)
(* the caller's tree and the record of the one call made on it.            *)
(***************************************************************************)
\* the longest path asked for, in characters
MaxPath == 5
\* the visitor fails at one of the first MaxStop calls, or never
MaxStop == 3

PathChars == {"j", "a", "/"}
Paths == UNION {[1..n -> PathChars] : n \in 0..MaxPath}

\* trees over the names j, a, aj, ja: the one of jser.md, three levels of
\* objects, an array, empty containers, scalars only, an object one of whose
\* two children is occupied, a name given twice, an array holding an object
UtilTrees ==
    << <<MK_OBJECT(<<"j">>, <<MK_LONG(<<"a">>, 1), MK_LONG(<<"a", "j">>, 2)>>),
         MK_LONG(<<"a">>, 3)>>,
       <<MK_OBJECT(<<"a">>, <<MK_OBJECT(<<"j">>, <<MK_LONG(<<"a">>, 1)>>),
                              MK_LONG(<<"a">>, 2)>>),
         MK_OBJECT(<<"j", "a">>, <<MK_LONG(<<"j">>, 3)>>)>>,
       <<MK_LONG(<<"a">>, 1), MK_ARRAY(<<"j">>, <<MK_LONG(<<>>, 3), MK_LONG(<<>>, 4)>>)>>,
       <<MK_OBJECT(<<"j">>, <<>>), MK_ARRAY(<<"a">>, <<>>)>>,
       <<MK_LONG(<<"a">>, 1), MK_LONG(<<"j">>, 2), MK_LONG(<<"a", "j">>, 3)>>,
       <<[MK_OBJECT(<<"j">>, <<MK_LONG(<<"a">>, 1), MK_LONG(<<"a", "j">>, 2)>>)
             EXCEPT !.used = 1],
         MK_BOOL(<<"a">>, TRUE)>>,
       <<MK_LONG(<<"a">>, 1), MK_OBJECT(<<"a">>, <<MK_LONG(<<"j">>, 2)>>)>>,
       <<MK_ARRAY(<<"j">>, <<MK_OBJECT(<<>>, <<MK_LONG(<<"a">>, 1)>>), MK_LONG(<<>>, 2)>>)>>,
       <<MK_OBJECT(<<"j">>, <<MK_ARRAY(<<"a">>, <<MK_OBJECT(<<>>, <<MK_LONG(<<"a">>, 1)>>)>>),
                              MK_LONG(<<"a", "j">>, 2)>>)>>,
       <<>> >>

\* documents for these trees, with up to three levels below the top
UtilDocs ==
    <<Obj(<<Pair(<<"a">>, Four)>>),
      Obj(<<Pair(<<"j">>, Obj(<<Pair(<<"a">>, Four)>>)), Pair(<<"a">>, MinusSeven)>>),
      Obj(<<Pair(<<"a">>, Obj(<<Pair(<<"j">>, Obj(<<Pair(<<"a">>, Four)>>))>>))>>),
      Obj(<<Pair(<<"a">>, Obj(<<Pair(<<"j">>, Obj(<<Pair(<<"a">>, Four)>>)),
                                Pair(<<"a">>, MinusSeven)>>))>>),
      Obj(<<Pair(<<"j">>, Obj(<<Pair(<<"a">>, Arr(<<Obj(<<Pair(<<"a">>, Four)>>)>>))>>))>>)>>

\* the largest depth limit a build is given
MaxDepth == 2

\* the longest byte sequence encoded
MaxBytes == 4

\* "HELLO\0" and every sequence of up to MaxBytes bytes out of three
Bytes == {0, 72, 255}
ByteSeqs == {HelloBytes} \cup UNION {[1..n -> Bytes] : n \in 0..MaxBytes}

NoUtil == [op |-> "none", rv |-> 0, path |-> <<>>, found |-> NULL, nodes |-> 0,
           stop |-> 0, seen |-> <<>>, plen |-> 0, size |-> 0, pool |-> <<>>,
           oob |-> FALSE, bytes |-> <<>>, cap |-> 0, text |-> <<>>, olen |-> 0,
           dcap |-> 0, drv |-> 0, out |-> <<>>, dlen |-> 0, max |-> 0,
           pretty |-> 0, used |-> 0, doc |-> NoValue, tokens |-> 0,
           fault |-> "none", parsed |-> 0, before |-> <<>>]

UtilInit ==
    /\ \E n \in 1..Len(UtilTrees) : j = UtilTrees[n]
    /\ len = NoLength
    /\ call = NoUtil
    /\ phase = "ready"

\* jser_retrieve_node(j, jlen, &found, path), found holding NULL or a
\* pointer left from before
RetrieveNode ==
    /\ call = NoUtil
    /\ \E path \in Paths : \E found \in {NULL, <<0>>} :
         LET r == jser_retrieve_node(j, Len(j), found, path)
         IN  call' = [NoUtil EXCEPT !.op = "retrieve", !.path = path, !.rv = r.rv,
                                    !.found = r.found]
    /\ UNCHANGED <<j, len, phase>>

\* jser_walk_tree(j, jlen, fn, &param) with the caller's visitor
WalkTree ==
    /\ call = NoUtil
    /\ \E stop \in 0..MaxStop :
         LET r == jser_walk_tree(j, Len(j), <<>>, "fn_note", [counter_t EXCEPT !.stop = stop])
         IN  call' = [NoUtil EXCEPT !.op = "walk", !.stop = stop, !.rv = r.rv,
                                    !.seen = r.param.seen]
    /\ UNCHANGED <<j, len, phase>>

\* jser_node_count(j, &jlen), jlen holding the number of top-level descriptors
NodeCount ==
    /\ call = NoUtil
    /\ LET r == jser_node_count(j, Len(j))
       IN  call' = [NoUtil EXCEPT !.op = "count", !.rv = r.rv, !.nodes = r.jlen]
    /\ UNCHANGED <<j, len, phase>>

\* jser_copy(j, jlen, pool, &plen) into a pool of size entries; a call that
\* stored past the pool may return anything
Copy ==
    /\ call = NoUtil
    /\ \E size \in 0..(jser_node_count(j, Len(j)).jlen + MaxSlack) :
         LET r == jser_copy(j, Len(j), [k \in 1..size |-> NoDesc], size)
         IN  \E rv \in (IF r.oob THEN UbReturns ELSE {r.rv}) :
               call' = [NoUtil EXCEPT !.op = "copy", !.size = size, !.rv = rv,
                                      !.plen = r.plen, !.pool = r.pool, !.oob = r.oob,
                                      !.nodes = jser_node_count(j, Len(j)).jlen]
    /\ UNCHANGED <<j, len, phase>>

\* jser_base64_encode(bytes, n, text, &olen) with *olen = cap, then, when it
\* succeeded, jser_base64_decode(text, olen, out, &dlen) with *dlen = dcap
Base64 ==
    /\ call = NoUtil
    /\ \E x \in ByteSeqs : \E slack \in -1..MaxSlack : \E dslack \in -1..MaxSlack :
         LET cap == base64_encoded_size(Len(x)) + slack
             dcap == Len(x) + dslack
             e == jser_base64_encode(x, cap)
             r == IF e.rv < 0 THEN [rv |-> 0, out |-> <<>>, olen |-> 0]
                  ELSE jser_base64_decode(e.out, dcap)
         IN  /\ cap >= 0
             /\ dcap >= 0
             /\ call' = [NoUtil EXCEPT !.op = "base64", !.bytes = x, !.cap = cap,
                                       !.rv = e.rv, !.text = e.out, !.olen = e.olen,
                                       !.dcap = dcap, !.drv = r.rv, !.out = r.out,
                                       !.dlen = r.olen]
    /\ UNCHANGED <<j, len, phase>>

\* jser_serialize_to_buffer(j, jlen, pretty, &b) in a build whose
\* JSER_MAX_DEPTH is max, on a buffer of the length the tree needs
SerializeBuilt ==
    /\ call = NoUtil
    /\ \E max \in 0..MaxDepth : \E pretty \in {0, 1} :
         LET r == jser_serialize_to_buffer_built(max, j, Len(j), pretty, Needed(j, pretty))
         IN  call' = [NoUtil EXCEPT !.op = "serialize", !.max = max, !.pretty = pretty,
                                    !.cap = Needed(j, pretty), !.rv = r.rv,
                                    !.used = r.used, !.text = r.buf, !.oob = r.oob]
    /\ UNCHANGED <<j, len, phase>>

\* jser_deserialize_from_asciiz(j, jlen, t, tokens, text) in a build whose
\* JSER_MAX_DEPTH is max: jser_deserialize_from_buffer stores it in sp.max,
\* which no function of the binder reads
DeserializeBuilt ==
    /\ call = NoUtil
    /\ phase = "ready"
    /\ \E max \in 0..MaxDepth : \E n \in 1..Len(UtilDocs) :
         LET text == Render(UtilDocs[n])
             tokens == TokenCount(text) + 1
         IN  Deserialized(jser_deserialize_from_asciiz(j, Len(j), tokens, Append(text, NUL)),
                          [NoUtil EXCEPT !.op = "deserialize", !.max = max,
                                         !.doc = UtilDocs[n], !.tokens = tokens,
                                         !.text = text])

UtilNext ==
    \/ RetrieveNode
    \/ WalkTree
    \/ NodeCount
    \/ Copy
    \/ Base64
    \/ SerializeBuilt
    \/ DeserializeBuilt

UtilSpec == UtilInit /\ [][UtilNext]_vars

(***************************************************************************)
(* The binder on one value: a tree whose descriptor v is of one of the     *)
(* types, and a document that gives v a value of one of the token kinds.   *)
(***************************************************************************)
\* primitives that are not numbers or booleans of JSON; the tokenizer takes
\* every run of characters up to a delimiter as one primitive token
Null == [t |-> "null", s |-> <<"n", "u", "l", "l">>, m |-> <<>>, val |-> 0]
Word(s) == [t |-> "word", s |-> s, m |-> <<>>, val |-> 0]
False == Bool(<<"f", "a", "l", "s", "e">>, FALSE)

\* a descriptor v of every type, string variables of 0, 1 and 3 bytes, each
\* followed by a descriptor w
BindTrees ==
    [k \in 1..12 |->
        << CASE k = 1 -> MK_LONG(<<"v">>, 1)
             [] k = 2 -> MK_ULONG(<<"v">>, 1)
             [] k = 3 -> MK_BOOL(<<"v">>, FALSE)
             [] k = 4 -> MK_BOOL(<<"v">>, TRUE)
             [] k = 5 -> MK_SIZED_ASCIIZ(<<"v">>, 0, <<"H", "I">>)
             [] k = 6 -> MK_SIZED_ASCIIZ(<<"v">>, 1, <<>>)
             [] k = 7 -> MK_SIZED_ASCIIZ(<<"v">>, 3, <<"H", "I">>)
             [] k = 8 -> MK_BUF(<<"v">>, jser_buffer_t(3, 1, <<72, 69, 76>>))
             [] k = 9 -> MK_OBJECT(<<"v">>, <<MK_LONG(<<"v">>, 2)>>)
             [] k = 10 -> MK_ARRAY(<<"v">>, <<MK_LONG(<<>>, 3), MK_LONG(<<>>, 4)>>)
             [] k = 11 -> MK_RUN(<<"v">>, JSER_LONG_E, <<1, 2>>)
             [] OTHER -> MK_ARRAY(<<"v">>, <<MK_BOOL(<<>>, FALSE)>>),
           MK_LONG(<<"w">>, 9) >>]

\* a value of every token kind, and none: a key that nothing follows
BindValues ==
    <<Four, MinusSeven, True, False, Null,
      Word(<<"t", "r", "u", "e", "x">>), Word(<<"t", "r", "u">>),
      Word(<<"f", "a", "l", "s", "e", "l", "y">>), Word(<<"t", "r", "u", "E">>),
      Str(<<>>), Hi, Str(<<"a", "b", "c">>), Str(<<"S", "E", "U", "=">>),
      Str(<<"S", "E", "V", "M", "T", "E", "8", "A">>),
      Obj(<<>>), Obj(<<Pair(<<"v">>, Four)>>), Obj(<<Pair(<<"w">>, Four)>>),
      Arr(<<>>), Arr(<<Four>>), Arr(<<True>>), NoValue>>

\* {"v":value} and {"v":value,"w":4}
BindDocs ==
    [k \in 1..Len(BindValues) |-> Obj(<<Pair(<<"v">>, BindValues[k])>>)]
    \o [k \in 1..Len(BindValues) |->
          Obj(<<Pair(<<"v">>, BindValues[k]), Pair(<<"w">>, Four)>>)]

BindInit ==
    /\ \E n \in 1..Len(BindTrees) : j = BindTrees[n]
    /\ len = NoLength
    /\ call = NoCall
    /\ phase = "ready"

\* jser_deserialize_from_asciiz(j, jlen, t, tokens, text) on a document of
\* one value for v, with a token array of the document's tokens and more
BindValue ==
    /\ phase = "ready"
    /\ call = NoCall
    /\ \E n \in 1..Len(BindDocs) : \E spare \in 0..MaxSpare :
         LET text == Render(BindDocs[n])
             tokens == TokenCount(text) + spare
         IN  Deserialized(jser_deserialize_from_asciiz(j, Len(j), tokens, Append(text, NUL)),
                          [NoCall EXCEPT !.op = "deserialize", !.doc = BindDocs[n],
                                         !.kind = "whole", !.tokens = tokens,
                                         !.cap = spare, !.text = text])

\* jser_serialize_to_buffer(j, jlen, pretty, &b) of the tree as it was set up
SerializeValue ==
    /\ phase = "ready"
    /\ call = NoCall
    /\ \E pretty \in {0, 1} : \E cap \in Capacities(j, pretty, 0) :
         LET r == jser_serialize_to_buffer(j, Len(j), pretty, cap)
         IN  call' = [NoCall EXCEPT !.op = "buffer", !.pretty = pretty, !.cap = cap,
                                    !.rv = r.rv, !.used = r.used, !.text = r.buf,
                                    !.oob = r.oob]
    /\ UNCHANGED <<j, len, phase>>

\* jser_serialize_to_buffer(j, jlen, pretty, &b) of the tree a deserializing
\* call that succeeded has left, into a buffer of the length the tree needs
SerializeBound ==
    /\ phase = "bound"
    /\ call.op = "deserialize"
    /\ call.fault = "none"
    /\ call.rv >= 0
    /\ \E pretty \in {0, 1} :
         LET r == jser_serialize_to_buffer(j, Len(j), pretty, Needed(j, pretty))
         IN  call' = [call EXCEPT !.op = "rebuffer", !.pretty = pretty,
                                  !.cap = Needed(j, pretty), !.rv = r.rv,
                                  !.used = r.used, !.text = r.buf, !.oob = r.oob]
    /\ UNCHANGED <<j, len, phase>>

BindNext ==
    \/ BindValue
    \/ SerializeValue
    \/ SerializeBound

BindSpec == BindInit /\ [][BindNext]_vars

(***************************************************************************)
(* The integer and base64 codecs called on their own.  The state is the    *)
(* record of the one call made.                                            *)
(***************************************************************************)
\* the longest text handed to the parsers and to the decoder
MaxText == 5

Bases == 2..16
\* digits of every base, a digit of base 16 only, and the sign
NumChars == {"0", "1", "9", "F", "-"}
NumTexts == UNION {[1..n -> NumChars] : n \in 0..MaxText}
\* the bases the texts are parsed in
ParseBases == {2, 10, 16}

\* two digits, the pad, a newline, and a space
CodeChars == {"Q", "/", "=", "\n", " "}
CodeTexts == UNION {[1..n -> CodeChars] : n \in 0..MaxText}

NoCodec == [op |-> "none", text |-> <<>>, base |-> 0, rv |-> 0, out |-> 0,
            value |-> 0, cap |-> 0, olen |-> 0, bytes |-> <<>>, fault |-> "none"]

CodecInit ==
    /\ j = <<>>
    /\ len = NoLength
    /\ call = NoCodec
    /\ phase = "ready"

\* str_to_u64(text, length, base, &out)
ParseUnsigned ==
    /\ call = NoCodec
    /\ \E text \in NumTexts : \E base \in ParseBases :
         LET r == str_to_u64(text, base)
         IN  call' = [NoCodec EXCEPT !.op = "str_to_u64", !.text = text, !.base = base,
                                     !.rv = r.rv, !.out = r.out]
    /\ UNCHANGED <<j, len, phase>>

\* str_to_i64(text, length, base, &out); o = -o on the least signed value
\* overflows the signed type, which is undefined
ParseSigned ==
    /\ call = NoCodec
    /\ \E text \in NumTexts : \E base \in ParseBases :
         LET r == str_to_i64(text, base)
         IN  \E fault \in (IF str_to_i64_negates_min(text, base)
                           THEN {"none", "ub"} ELSE {"none"}) :
               call' = [NoCodec EXCEPT !.op = "str_to_i64", !.text = text, !.base = base,
                                       !.rv = r.rv, !.out = r.out, !.fault = fault]
    /\ UNCHANGED <<j, len, phase>>

\* u64_to_str(b, u, base), then str_to_u64 of b
FormatUnsigned ==
    /\ call = NoCodec
    /\ \E u \in 0..(UMod - 1) : \E base \in Bases :
         LET b == u64_to_str(u, base)
             r == str_to_u64(b, base)
         IN  call' = [NoCodec EXCEPT !.op = "u64_to_str", !.value = u, !.base = base,
                                     !.text = b, !.rv = r.rv, !.out = r.out]
    /\ UNCHANGED <<j, len, phase>>

\* i64_to_str(b, s, base), then str_to_i64 of b; s = -s on the least signed
\* value overflows the signed type, which is undefined
FormatSigned ==
    /\ call = NoCodec
    /\ \E s \in SMin..SMax : \E base \in Bases :
         LET b == i64_to_str(s, base)
             r == str_to_i64(b, base)
         IN  \E fault \in (IF s = SMin THEN {"none", "ub"} ELSE {"none"}) :
               call' = [NoCodec EXCEPT !.op = "i64_to_str", !.value = s, !.base = base,
                                       !.text = b, !.rv = r.rv, !.out = r.out,
                                       !.fault = fault]
    /\ UNCHANGED <<j, len, phase>>

\* jser_base64_decode(text, ilen, obuf, &olen) with *olen = cap
Base64Decode ==
    /\ call = NoCodec
    /\ \E text \in CodeTexts : \E cap \in 0..MaxBytes :
         LET r == jser_base64_decode(text, cap)
         IN  call' = [NoCodec EXCEPT !.op = "decode", !.text = text, !.cap = cap,
                                     !.rv = r.rv, !.bytes = r.out, !.olen = r.olen]
    /\ UNCHANGED <<j, len, phase>>

CodecNext ==
    \/ ParseUnsigned
    \/ ParseSigned
    \/ FormatUnsigned
    \/ FormatSigned
    \/ Base64Decode

CodecSpec == CodecInit /\ [][CodecNext]_vars

(***************************************************************************)
(* What a document means for a tree, read off the document itself.         *)
(***************************************************************************)
\* the document is JSON: every key has a value
RECURSIVE ValidJson(_)
ValidJson(v) ==
    /\ v.t # "none"
    /\ \A k \in 1..Len(v.m) : ValidJson(v.m[k].v)

\* the document is an object of numbers, booleans and strings
IsFlat(doc) ==
    /\ doc.t = "obj"
    /\ \A k \in 1..Len(doc.m) : doc.m[k].v.t \in {"num", "bool", "str"}

\* the value v is one the variable of descriptor e can hold
Accepts(e, v) ==
    /\ ~e.is_array
    /\ CASE e.type = JSER_LONG_E -> v.t = "num"
         [] e.type = JSER_ULONG_E -> v.t = "num" /\ v.s[1] # "-"
         [] e.type = JSER_BOOL_E -> v.t = "bool"
         [] e.type = JSER_ASCIIZ_E -> v.t = "str" /\ Len(v.s) < e.length
         [] OTHER -> FALSE

\* the top-level keys of the document
Keys(doc) == {doc.m[k].k : k \in 1..Len(doc.m)}

\* the top-level attributes of the tree
Attrs(tree) == {tree[k].attr : k \in 1..Len(tree)}

\* the members of the document whose key the tree has
Known(tree, doc) == {k \in 1..Len(doc.m) : doc.m[k].k \in Attrs(tree)}

\* every member the tree has a descriptor for is a scalar its variable holds
WellTyped(tree, doc) ==
    \A k \in Known(tree, doc) : \A n \in 1..Len(tree) :
        tree[n].attr = doc.m[k].k => Accepts(tree[n], doc.m[k].v)

\* the last member of the document with the key attr
LastOf(doc, attr) ==
    doc.m[CHOOSE k \in 1..Len(doc.m) :
             /\ doc.m[k].k = attr
             /\ \A n \in (k + 1)..Len(doc.m) : doc.m[n].k # attr]

\* the tree after the document's known members are stored and nothing else
Bound(tree, doc) ==
    [n \in 1..Len(tree) |->
        IF tree[n].attr \in Keys(doc)
        THEN [tree[n] EXCEPT !.data = LastOf(doc, tree[n].attr).v.val]
        ELSE tree[n]]

\* a deserializing call on the whole text of a document that the tokenizer took
Took == call.op = "deserialize" /\ call.kind = "whole" /\ call.parsed >= 0

(***************************************************************************)
(* C1.  The length jser_serialized_length reports equals the length of the *)
(* string jser_serialize_to_asciiz produces for the same tree and the same *)
(* pretty setting.                                                         *)
(***************************************************************************)
C1_LengthMatchesString ==
    (call.op = "asciiz" /\ call.rv = JSER_OK /\ len.valid /\ len.pretty = call.pretty)
        => (len.rv = JSER_OK /\ len.sz = strlen(call.text))

\* a pretty string with a nested level was measured and written
C1_Witness ==
    /\ call.op = "asciiz" /\ call.rv = JSER_OK
    /\ len.valid /\ len.pretty = 1 /\ call.pretty = 1
    /\ len.sz = strlen(call.text)
    /\ \E k \in 1..Len(j) : IsContainer(j[k]) /\ j[k].length > 0

(***************************************************************************)
(* C2.  Serializing a tree and deserializing the text into a tree of the   *)
(* same shape, with string sizes, array lengths and tokens to spare,       *)
(* succeeds and leaves the second tree holding the values of the first,    *)
(* buffer bytes and buffer occupied counts included.                       *)
(***************************************************************************)
RECURSIVE SameValues(_, _)

\* the variables of the trees x and y hold the same values
SameValues(x, y) ==
    /\ Len(x) = Len(y)
    /\ \A k \in 1..Len(x) :
         CASE IsContainer(x[k]) -> SameValues(x[k].data, y[k].data)
           [] x[k].type = JSER_BUFFER_E /\ ~x[k].is_array ->
                /\ x[k].data.used = y[k].data.used
                /\ SubSeq(x[k].data.buf, 1, x[k].data.used)
                     = SubSeq(y[k].data.buf, 1, x[k].data.used)
           [] OTHER -> x[k].data = y[k].data

C2_RoundTrip ==
    call.op = "roundtrip"
        => (call.fault = "none" /\ call.rv >= 0 /\ SameValues(call.before, j))

(***************************************************************************)
(* C3.  When the tokenizer rejects the input, deserialization returns the  *)
(* matching error (truncated input: JSER_ERR_MORE_DAT, malformed input:    *)
(* JSER_ERR_PARSE, too few tokens: JSER_ERR_SPACE) and changes no variable *)
(* of the tree.                                                            *)
(***************************************************************************)
C3_RejectionLeavesTree ==
    (call.op = "deserialize" /\ call.parsed < 0)
        => /\ call.fault = "none"
           /\ j = call.before
           /\ call.parsed \in {JSMN_ERROR_PART, JSMN_ERROR_INVAL, JSMN_ERROR_NOMEM}
           /\ call.parsed = JSMN_ERROR_PART => call.rv = JSER_ERR_MORE_DAT
           /\ call.parsed = JSMN_ERROR_INVAL => call.rv = JSER_ERR_PARSE
           /\ call.parsed = JSMN_ERROR_NOMEM => call.rv = JSER_ERR_SPACE

\* a text cut short after "a":4 was handed to a tree whose a holds another value
C3_Witness ==
    /\ call.op = "deserialize" /\ call.kind = "cut"
    /\ call.parsed = JSMN_ERROR_PART /\ call.rv = JSER_ERR_MORE_DAT
    /\ Len(call.doc.m) = 1 /\ call.doc.m[1] = Pair(<<"a">>, Four)
    /\ Len(j) > 0 /\ j[1].attr = <<"a">> /\ j[1].type = JSER_LONG_E /\ j[1].data # 4

(***************************************************************************)
(* C4.  Deserializing a flat object whose values fit the variables they    *)
(* name succeeds, stores each value in the variable of the descriptor      *)
(* whose attribute is its key, and leaves every other variable as it was.  *)
(***************************************************************************)
C4_FlatObjectBinds ==
    (Took /\ IsFlat(call.doc) /\ WellTyped(call.before, call.doc))
        => (call.fault = "none" /\ call.rv >= 0 /\ j = Bound(call.before, call.doc))

\* "a" was stored, the key "x" no descriptor has was passed over, and the
\* variables b and c kept their values
C4_Witness ==
    /\ Took /\ IsFlat(call.doc) /\ WellTyped(call.before, call.doc)
    /\ Len(call.doc.m) = 2
    /\ call.doc.m[1] = Pair(<<"x">>, Hi) /\ call.doc.m[2] = Pair(<<"a">>, Four)
    /\ Len(j) >= 3 /\ j[1].attr = <<"a">> /\ j[1].data = 4 /\ call.before[1].data # 4
    /\ j[2] = call.before[2] /\ j[3] = call.before[3]

(***************************************************************************)
(* C5.  A key no descriptor has is passed over together with the whole     *)
(* subtree of its value: the call succeeds and the members after it are    *)
(* stored in their variables.                                              *)
(***************************************************************************)
\* the document has a key the tree lacks, valued by an object or an array,
\* before a member the tree has
SkipsNested(tree, doc) ==
    \E k \in 1..Len(doc.m) : \E n \in (k + 1)..Len(doc.m) :
        /\ doc.m[k].k \notin Attrs(tree) /\ doc.m[k].v.t \in {"obj", "arr"}
        /\ doc.m[n].k \in Attrs(tree)

C5_UnknownKeySkipped ==
    (Took /\ ValidJson(call.doc) /\ SkipsNested(call.before, call.doc)
          /\ WellTyped(call.before, call.doc))
        => (call.fault = "none" /\ call.rv >= 0 /\ j = Bound(call.before, call.doc))

(***************************************************************************)
(* C6.  No token inside the value subtree of a key that matches no         *)
(* descriptor is stored in any variable: a variable changes only if its    *)
(* descriptor's attribute is a key of the object being read, level by      *)
(* level.                                                                  *)
(***************************************************************************)
RECURSIVE Untouched(_, _, _)

\* the descriptors of x that no member of m names are the same in y, and so
\* on inside each object that one object member names
Untouched(x, y, m) ==
    \A n \in 1..Len(x) :
        LET named == {k \in 1..Len(m) : m[k].k = x[n].attr}
        IN  IF named = {} THEN y[n] = x[n]
            ELSE IF x[n].type = JSER_OBJECT_E /\ Cardinality(named) = 1
                    /\ \A k \in named : m[k].v.t = "obj"
            THEN Untouched(x[n].data, y[n].data, m[CHOOSE k \in named : TRUE].v.m)
            ELSE TRUE

C6_UnmatchedSubtreeNotBound ==
    (Took /\ ValidJson(call.doc)) => Untouched(call.before, j, call.doc.m)

(***************************************************************************)
(* C7.  Serializing into a buffer one byte smaller than the serialized     *)
(* length fails with JSER_ERR_SPACE and stores nothing at or past the      *)
(* buffer's capacity.                                                      *)
(***************************************************************************)
\* the last length asked for is the length of what the last call serialized
Measured ==
    /\ call.op = "buffer"
    /\ len.valid /\ len.pretty = call.pretty /\ len.rv = JSER_OK

C7_OneByteShortFails ==
    (Measured /\ call.cap = len.sz - 1)
        => (call.rv = JSER_ERR_SPACE /\ ~call.oob /\ Len(call.text) <= call.cap)

\* a buffer one byte short was filled to its last byte before the failure
C7_Witness ==
    /\ Measured /\ call.cap = len.sz - 1
    /\ call.rv = JSER_ERR_SPACE
    /\ Len(call.text) = call.cap /\ call.cap > 1

(***************************************************************************)
(* C8.  Serializing into a buffer whose capacity is exactly the serialized *)
(* length succeeds and leaves its occupied count equal to that length,     *)
(* also for a tree with a binary buffer that is not full.                  *)
(***************************************************************************)
C8_ExactCapacitySucceeds ==
    (Measured /\ call.cap = len.sz)
        => (call.rv = JSER_OK /\ call.used = len.sz)

(***************************************************************************)
(* C9.  A successful deserialization returns exactly 0, however many       *)
(* tokens the token array has beyond the ones the input needs, none        *)
(* included.                                                               *)
(***************************************************************************)
C9_SuccessReturnsZero ==
    (Took /\ IsFlat(call.doc) /\ WellTyped(call.before, call.doc)
          /\ call.fault = "none" /\ j = Bound(call.before, call.doc))
        => call.rv = JSER_OK

(***************************************************************************)
(* C10.  Deserialization returns for every token array the tokenizer can   *)
(* produce, a key with no value followed by further tokens included.       *)
(***************************************************************************)
C10_DeserializeReturns ==
    call.op \in {"deserialize", "roundtrip"} => call.fault # "hang"

(***************************************************************************)
(* What the tree utilities are to report, read off the tree itself.        *)
(***************************************************************************)
\* the components of a path: what stands between its '/' characters
RECURSIVE Split(_)
Split(path) ==
    IF \A k \in 1..Len(path) : path[k] # "/" THEN <<path>>
    ELSE LET k == CHOOSE n \in 1..Len(path) :
                      path[n] = "/" /\ \A m \in 1..(n - 1) : path[m] # "/"
         IN  <<SubSeq(path, 1, k - 1)>> \o Split(SubSeq(path, k + 1, Len(path)))

\* the pointers to the descriptors a sequence of names may lead to: each
\* name is the attribute of an occupied descriptor of the level, and all
\* but the last are objects
RECURSIVE Targets(_, _, _, _, _)
Targets(level, used, at, names, i) ==
    UNION {IF level[k].attr # names[i] THEN {}
           ELSE IF i = Len(names) THEN {Append(at, k - 1)}
           ELSE IF level[k].type # JSER_OBJECT_E THEN {}
           ELSE Targets(level[k].data, level[k].used, Append(at, k - 1), names, i + 1)
           : k \in 1..used}

\* the same, taking at each level the first descriptor of that name only
RECURSIVE Resolve(_, _, _, _, _)
Resolve(level, used, at, names, i) ==
    LET M == {k \in 1..used : level[k].attr = names[i]}
        k == CHOOSE n \in M : \A m \in M : n <= m
    IN  IF M = {} THEN NULL
        ELSE IF i = Len(names) THEN Append(at, k - 1)
        ELSE IF level[k].type # JSER_OBJECT_E THEN NULL
        ELSE Resolve(level[k].data, level[k].used, Append(at, k - 1), names, i + 1)

\* the names of a path for the library: its components that are not empty;
\* a path that is empty or ends in '/' names nothing
Names(path) == SelectSeq(Split(path), LAMBDA c : c # <<>>)

Named(tree, path) ==
    IF path = <<>> \/ path[Len(path)] = "/" THEN NULL
    ELSE Resolve(tree, Len(tree), <<>>, Names(path), 1)

(***************************************************************************)
(* C11 as stated: jser_retrieve_node returns 1 with 'found' set to the     *)
(* descriptor named by the last component exactly when every '/'-separated *)
(* component of the path equals the attribute of a descriptor at the       *)
(* successive level and every component but the last names an object;      *)
(* otherwise it returns 0 and 'found' is NULL.                             *)
(***************************************************************************)
C11_EveryComponentNamed ==
    call.op = "retrieve" =>
        LET T == Targets(j, Len(j), <<>>, Split(call.path), 1)
        IN  IF T # {} THEN call.rv = 1 /\ call.found \in T
            ELSE call.rv = 0 /\ call.found = NULL

(***************************************************************************)
(* C11, amended: the '/' characters before a name are skipped, so the      *)
(* empty components a leading or repeated '/' makes are not looked up; a   *)
(* path that is empty or ends in '/' finds nothing; at each level the      *)
(* first occupied descriptor of the name is the one taken.  The call       *)
(* returns 1 with 'found' set to the descriptor named so, and otherwise 0  *)
(* with 'found' NULL.                                                      *)
(***************************************************************************)
C11_RetrieveNode ==
    call.op = "retrieve" =>
        IF Named(j, call.path) # NULL
        THEN call.rv = 1 /\ call.found = Named(j, call.path)
        ELSE call.rv = 0 /\ call.found = NULL

\* a descriptor inside an object is found, by a path with a '/' to skip
C11_Witness ==
    /\ call.op = "retrieve"
    /\ call.rv = 1
    /\ Len(call.found) = 2
    /\ \E k \in 1..(Len(call.path) - 1) : call.path[k] = "/" /\ call.path[k + 1] = "/"

\* the pointers to every descriptor of a tree: those of the level, and under
\* each object or array those of its occupied children
RECURSIVE Ptrs(_, _, _)
Ptrs(level, used, at) ==
    UNION {{Append(at, k - 1)}
           \cup (IF IsContainer(level[k])
                 THEN Ptrs(level[k].data, level[k].used, Append(at, k - 1))
                 ELSE {})
           : k \in 1..used}

\* a comes before b when a descriptor is taken before its children and the
\* descriptors of a level in the order they are declared in
Before(a, b) ==
    \E i \in 1..Len(b) :
        /\ i <= Len(a) + 1
        /\ \A m \in 1..(i - 1) : a[m] = b[m]
        /\ (i = Len(a) + 1 \/ a[i] < b[i])

(***************************************************************************)
(* C12: jser_node_count succeeds and reports the number of descriptors of  *)
(* the tree, every descriptor of the top level and, under every object and *)
(* array, every occupied child; a walk that is not stopped calls the       *)
(* visitor once for each of them, a container before its children and the  *)
(* descriptors of a level in declaration order.                            *)
(***************************************************************************)
C12_NodeCountIsFullWalk ==
    /\ call.op = "count" =>
          call.rv = 0 /\ call.nodes = Cardinality(Ptrs(j, Len(j), <<>>))
    /\ call.op = "walk" /\ call.stop = 0 =>
          /\ call.rv = 0
          /\ Len(call.seen) = Cardinality(Ptrs(j, Len(j), <<>>))
          /\ {call.seen[k] : k \in 1..Len(call.seen)} = Ptrs(j, Len(j), <<>>)
          /\ \A k \in 1..(Len(call.seen) - 1) : Before(call.seen[k], call.seen[k + 1])

\* a tree of six descriptors, three levels deep, is counted
C12_Witness ==
    /\ call.op = "count"
    /\ call.nodes = 6
    /\ \E p \in Ptrs(j, Len(j), <<>>) : Len(p) = 3

\* the descriptor a pointer leads to
RECURSIVE DescAt(_, _)
DescAt(level, p) ==
    IF Len(p) = 1 THEN level[p[1] + 1] ELSE DescAt(level[p[1] + 1].data, Tail(p))

\* the pointer to the k-th descriptor of a tree, a container before its children
Nth(tree, k) ==
    LET P == Ptrs(tree, Len(tree), <<>>)
    IN  CHOOSE p \in P : Cardinality({q \in P : Before(q, p)}) = k - 1

\* pool entry k (from 1) is a copy of descriptor e: its attribute, type and
\* counts, and for a container that has children a child pointer to the
\* entry after it
CopyOf(pool, k, e) ==
    /\ pool[k].attr = e.attr
    /\ pool[k].type = e.type
    /\ pool[k].length = e.length
    /\ pool[k].used = e.used
    /\ pool[k].is_array = e.is_array
    /\ IsContainer(e) /\ e.used > 0 => pool[k].data = [pool |-> k]

(***************************************************************************)
(* C13 as stated: with a pool of at least as many entries as               *)
(* jser_node_count reports, jser_copy succeeds, sets the output count to   *)
(* the node count, and the pool holds the descriptors of the tree, each    *)
(* container followed by the copies of its children, to which its child    *)
(* pointer refers.                                                         *)
(***************************************************************************)
C13_CopyKeepsShape ==
    call.op = "copy" /\ call.size >= call.nodes =>
        /\ call.rv = 0
        /\ call.plen = call.nodes
        /\ \A k \in 1..call.nodes : CopyOf(call.pool, k, DescAt(j, Nth(j, k)))

(***************************************************************************)
(* C14 as stated: with a pool of fewer entries than the tree has nodes,    *)
(* jser_copy fails with a negative status, sets the output count to zero,  *)
(* and stores no entry at or past the pool size the caller gave.           *)
(***************************************************************************)
C14_SmallPoolFails ==
    call.op = "copy" /\ call.size < call.nodes =>
        /\ call.rv < 0
        /\ call.plen = 0
        /\ ~call.oob

(***************************************************************************)
(* C15: for a sequence of n bytes, jser_base64_encode into a buffer of at  *)
(* least 4 * ceil(n / 3) characters succeeds and gives exactly that many   *)
(* characters, and jser_base64_decode of them into a buffer of at least n  *)
(* bytes succeeds and gives back the n bytes, with n as the length         *)
(* reported; "HELLO\0" is encoded as "SEVMTE8A".                           *)
(***************************************************************************)
C15_Base64RoundTrip ==
    call.op = "base64" /\ call.cap >= 4 * ((Len(call.bytes) + 2) \div 3) =>
        /\ call.rv = 0
        /\ call.olen = 4 * ((Len(call.bytes) + 2) \div 3)
        /\ Len(call.text) = call.olen
        /\ call.bytes = HelloBytes => call.text = <<"S", "E", "V", "M", "T", "E", "8", "A">>
        /\ call.dcap >= Len(call.bytes) =>
              /\ call.drv = 0
              /\ call.out = call.bytes
              /\ call.dlen = Len(call.bytes)

\* four bytes, which take padding, came back out of buffers of the exact sizes
C15_Witness ==
    /\ call.op = "base64"
    /\ Len(call.bytes) = 4
    /\ call.cap = 8
    /\ call.text[8] = "="
    /\ call.dcap = 4
    /\ call.drv = 0
    /\ call.out = call.bytes

(***************************************************************************)
(* C16: jser_serialize_to_asciiz into 'length' bytes.  When it succeeds    *)
(* the bytes written are the serialized text and a NUL at the index equal  *)
(* to the serialized length; when serialization fails and length >= 1 the  *)
(* first byte is NUL and the status is negative; with length 0 it fails    *)
(* and writes nothing.  No byte at an index >= length is written.          *)
(***************************************************************************)
C16_AsciizTerminated ==
    call.op = "asciiz" =>
        /\ ~call.oob
        /\ Len(call.text) <= call.cap
        /\ call.cap = 0 => call.rv < 0 /\ call.text = <<>>
        /\ call.cap >= 1 /\ call.rv # JSER_OK => call.rv < 0 /\ call.text[1] = NUL
        /\ call.rv = JSER_OK =>
              /\ call.text = Append(jser_serialize_to_buffer(j, Len(j), call.pretty, SIZE_MAX).buf, NUL)
              /\ call.text[jser_serialized_length(j, Len(j), call.pretty).sz + 1] = NUL

\* a nested tree written pretty into exactly its length and one byte
C16_Witness ==
    /\ call.op = "asciiz"
    /\ call.rv = JSER_OK
    /\ call.pretty = 1
    /\ call.cap = Len(call.text)
    /\ \E k \in 1..Len(j) : IsContainer(j[k])

\* the depth of a tree: the greatest number of containers one inside the
\* other, 0 for a top level of scalars
Depth(tree) ==
    LET C == {p \in Ptrs(tree, Len(tree), <<>>) : IsContainer(DescAt(tree, p))}
    IN  IF C = {} THEN 0 ELSE CHOOSE n \in 1..Cardinality(C) :
                                 /\ \E p \in C : Len(p) = n
                                 /\ \A p \in C : Len(p) <= n

\* how deep the brackets of a text go: 1 for the top level alone
RECURSIVE Opened(_, _)
Opened(text, n) ==
    IF n = 0 THEN 0
    ELSE Opened(text, n - 1)
         + (IF text[n] \in {"{", "["} THEN 1 ELSE IF text[n] \in {"}", "]"} THEN -1 ELSE 0)

TextDepth(text) ==
    CHOOSE m \in 0..Len(text) :
        /\ \E n \in 0..Len(text) : Opened(text, n) = m
        /\ \A n \in 0..Len(text) : Opened(text, n) <= m

(***************************************************************************)
(* C17: in a build with a depth limit D other than 0, serializing a tree   *)
(* whose containers go deeper than D below the top level fails with        *)
(* JSER_ERR_DEPTH, and no level deeper than D is opened in the output; a   *)
(* tree that stays within D, and any tree when D is 0, is written whole.   *)
(***************************************************************************)
C17_DepthLimitSerialize ==
    call.op = "serialize" =>
        /\ call.max # 0 /\ Depth(j) > call.max => call.rv = JSER_ERR_DEPTH
        /\ call.max # 0 => TextDepth(call.text) <= call.max + 1
        /\ call.max = 0 \/ Depth(j) <= call.max =>
              call.rv = JSER_OK /\ TextDepth(call.text) = Depth(j) + 1

\* a tree three containers deep is refused at limit 2 after level 2 was opened
C17_Witness ==
    /\ call.op = "serialize"
    /\ call.max = 2
    /\ Depth(j) = 3
    /\ call.rv = JSER_ERR_DEPTH
    /\ TextDepth(call.text) = 3

\* the depth of a document: its objects and arrays below the top level
RECURSIVE DocDepth(_)
DocDepth(v) ==
    LET D == {IF v.m[k].v.t \in {"obj", "arr"} THEN 1 + DocDepth(v.m[k].v) ELSE 0
              : k \in 1..Len(v.m)}
    IN  IF D = {} THEN 0 ELSE CHOOSE n \in D : \A m \in D : m <= n

(***************************************************************************)
(* C18 as stated: in a build with a depth limit D other than 0,            *)
(* deserializing a document nested deeper than D into a tree nested deeper *)
(* than D fails with JSER_ERR_DEPTH instead of recursing further.          *)
(***************************************************************************)
C18_DepthLimitDeserialize ==
    (call.op = "deserialize" /\ call.max # 0
        /\ DocDepth(call.doc) > call.max /\ Depth(call.before) > call.max)
        => call.rv = JSER_ERR_DEPTH

\* the members m, of distinct keys, all name descriptors of the level that
\* can take them: a scalar its variable, an object an object descriptor
\* whose children take its members, an array an array descriptor that has
\* room for its elements, which its children take in order
RECURSIVE Fits(_, _)
Fits(tree, m) ==
    /\ \A k \in 1..Len(m) : \A n \in 1..Len(m) : m[k].k = m[n].k => k = n
    /\ \A n \in 1..Len(tree) : \A k \in 1..Len(tree) : tree[k].attr = tree[n].attr => k = n
    /\ \A k \in 1..Len(m) : \E n \in 1..Len(tree) :
         /\ tree[n].attr = m[k].k
         /\ CASE m[k].v.t = "obj" ->
                   tree[n].type = JSER_OBJECT_E /\ Fits(tree[n].data, m[k].v.m)
              [] m[k].v.t = "arr" ->
                   /\ tree[n].type = JSER_ARRAY_E
                   /\ Len(m[k].v.m) <= tree[n].length
                   /\ \A i \in 1..Len(m[k].v.m) : Accepts(tree[n].data[i], m[k].v.m[i].v)
              [] OTHER -> Accepts(tree[n], m[k].v)

\* the tree after the members m are stored, each at its own level
RECURSIVE BoundDeep(_, _)
BoundDeep(tree, m) ==
    [n \in 1..Len(tree) |->
        IF \A k \in 1..Len(m) : m[k].k # tree[n].attr THEN tree[n]
        ELSE LET v == m[CHOOSE k \in 1..Len(m) : m[k].k = tree[n].attr].v
             IN  CASE v.t = "obj" -> [tree[n] EXCEPT !.data = BoundDeep(@, v.m)]
                   [] v.t = "arr" ->
                        [tree[n] EXCEPT
                            !.used = Len(v.m),
                            !.data = [i \in 1..Len(@) |->
                                         IF i <= Len(v.m)
                                         THEN [@[i] EXCEPT !.data = v.m[i].v.val]
                                         ELSE @[i]]]
                   [] OTHER -> [tree[n] EXCEPT !.data = v.val]]

\* at some level a member valued by an object or an array has a member after it
RECURSIVE SiblingAfterContainer(_)
SiblingAfterContainer(m) ==
    \/ \E k \in 1..(Len(m) - 1) : m[k].v.t \in {"obj", "arr"}
    \/ \E k \in 1..Len(m) : m[k].v.t = "obj" /\ SiblingAfterContainer(m[k].v.m)

(***************************************************************************)
(* C19 as stated: after a matched key is bound the binder is past the      *)
(* whole subtree of its value, so that when the value is an object or an   *)
(* array the members after it are stored in the variables of the level     *)
(* they stand at: the call succeeds and every member of the document is    *)
(* stored at its own level.                                                *)
(***************************************************************************)
C19_SiblingsAfterContainerBound ==
    (Took /\ ValidJson(call.doc) /\ Fits(call.before, call.doc.m)
          /\ SiblingAfterContainer(call.doc.m))
        => (call.fault = "none" /\ call.rv >= 0 /\ j = BoundDeep(call.before, call.doc.m))

\* the document gives the array of some descriptor of the tree more
\* elements than the descriptor has room for
Overfull(tree, doc) ==
    \E k \in 1..Len(doc.m) : \E n \in 1..Len(tree) :
        /\ tree[n].attr = doc.m[k].k
        /\ tree[n].type = JSER_ARRAY_E
        /\ doc.m[k].v.t = "arr"
        /\ Len(doc.m[k].v.m) > tree[n].length

\* some member of the document is an array for an array descriptor
ArrayBound(tree, doc) ==
    \E k \in 1..Len(doc.m) : \E n \in 1..Len(tree) :
        tree[n].attr = doc.m[k].k /\ tree[n].type = JSER_ARRAY_E /\ doc.m[k].v.t = "arr"

(***************************************************************************)
(* C20 as stated: binding a JSON array to an array descriptor of capacity  *)
(* c stores element after element in the child slots from slot 0; an array *)
(* of more than c elements fails with JSER_ERR_SPACE; no child slot at an  *)
(* index >= c is read or written; on success the occupied count is the     *)
(* number of elements.                                                     *)
(***************************************************************************)
C20_ArrayWithinCapacity ==
    (Took /\ ValidJson(call.doc) /\ ArrayBound(call.before, call.doc)) =>
        /\ call.fault # "ub"
        /\ Overfull(call.before, call.doc) => call.rv = JSER_ERR_SPACE
        /\ (Fits(call.before, call.doc.m) /\ call.fault = "none" /\ call.rv >= 0)
              => j = BoundDeep(call.before, call.doc.m)

(***************************************************************************)
(* Claims on the binder of one value (BindSpec).                           *)
(***************************************************************************)
\* the descriptor v of the tree and the value the document gives it
BoundDesc(tree) == tree[1]
GivenValue(doc) == doc.m[1].v

\* the kind of the value's token does not go with the descriptor's type
Mismatch(e, v) ==
    \/ v.t = "obj" /\ e.type # JSER_OBJECT_E
    \/ v.t = "arr" /\ e.type # JSER_ARRAY_E
    \/ v.t = "str" /\ e.type \in {JSER_LONG_E, JSER_ULONG_E, JSER_BOOL_E,
                                  JSER_OBJECT_E, JSER_ARRAY_E}
    \/ v.t = "num" /\ e.type \notin {JSER_LONG_E, JSER_ULONG_E}
    \/ v.t = "bool" /\ e.type # JSER_BOOL_E
    \/ v.t = "null"

(***************************************************************************)
(* C21 as stated: every mismatch of token kind and descriptor type (an     *)
(* object token for a non-object, an array token for a non-array, a string *)
(* for an integer, boolean or container, a number for a non-integer,       *)
(* true/false for a non-boolean, any null) is reported as JSER_ERR_TYPE    *)
(* and leaves the target as it was.                                        *)
(***************************************************************************)
C21_MismatchIsTypeError ==
    (Took /\ Mismatch(BoundDesc(call.before), GivenValue(call.doc)))
        => /\ call.fault = "none"
           /\ call.rv = JSER_ERR_TYPE
           /\ BoundDesc(j) = BoundDesc(call.before)

\* the value is a primitive whose text begins with t or f
StartsLikeBoolean(v) ==
    v.t \in {"bool", "word"} /\ Len(v.s) > 0 /\ v.s[1] \in {"t", "f"}

(***************************************************************************)
(* C22 as stated: a primitive beginning with t or f is accepted for a      *)
(* boolean descriptor only when its text is exactly "true" or exactly      *)
(* "false"; then the variable holds that boolean.  Any other text, such as *)
(* a longer one that begins with "true", is rejected and the variable is   *)
(* unchanged.                                                              *)
(***************************************************************************)
C22_ExactBooleanLiteral ==
    (Took /\ BoundDesc(call.before).type = JSER_BOOL_E
          /\ ~BoundDesc(call.before).is_array
          /\ StartsLikeBoolean(GivenValue(call.doc)))
        => IF GivenValue(call.doc).s \in {True.s, False.s}
           THEN call.fault = "none" => BoundDesc(j).data = GivenValue(call.doc).val
           ELSE /\ call.fault = "none"
                /\ call.rv < 0
                /\ BoundDesc(j) = BoundDesc(call.before)

\* a string value is bound to a string descriptor
StringToAsciiz ==
    /\ Took
    /\ BoundDesc(call.before).type = JSER_ASCIIZ_E
    /\ ~BoundDesc(call.before).is_array
    /\ GivenValue(call.doc).t = "str"

(***************************************************************************)
(* C23.  Binding a string token to a string descriptor of declared         *)
(* capacity c: c = 0 is rejected with JSER_ERR_TYPE; a token of length     *)
(* >= c is rejected; otherwise the variable holds the token's bytes as     *)
(* they are, followed by the terminator.  The bytes written and the        *)
(* terminator lie below index c, and a rejected call writes nothing.       *)
(***************************************************************************)
C23_StringWithinCapacity ==
    StringToAsciiz =>
        /\ call.fault = "none"
        /\ IF BoundDesc(call.before).length = 0
           THEN call.rv = JSER_ERR_TYPE /\ BoundDesc(j) = BoundDesc(call.before)
           ELSE IF Len(GivenValue(call.doc).s) >= BoundDesc(call.before).length
           THEN call.rv < 0 /\ BoundDesc(j) = BoundDesc(call.before)
           ELSE /\ call.rv >= 0
                /\ BoundDesc(j).data = GivenValue(call.doc).s
                /\ Len(BoundDesc(j).data) + 1 <= BoundDesc(call.before).length

\* a token one byte shorter than the variable is stored
C23_Witness ==
    /\ StringToAsciiz
    /\ Len(GivenValue(call.doc).s) + 1 = BoundDesc(call.before).length
    /\ Len(GivenValue(call.doc).s) > 0
    /\ call.rv >= 0
    /\ BoundDesc(j).data = GivenValue(call.doc).s
    /\ BoundDesc(j).data # BoundDesc(call.before).data

(***************************************************************************)
(* Claims on the codecs called on their own (CodecSpec).                   *)
(***************************************************************************)
\* the text before its first '='
Lead(text) ==
    IF \E k \in 1..Len(text) : text[k] = "="
    THEN SubSeq(text, 1, (CHOOSE k \in 1..Len(text) :
                              text[k] = "=" /\ \A n \in 1..(k - 1) : text[n] # "=") - 1)
    ELSE text

IsCodeDigit(ch) == \E k \in 1..64 : lookup[k] = ch
CodeValue(ch) == (CHOOSE k \in 1..64 : lookup[k] = ch) - 1

\* a character before the first '=' is neither a digit nor a newline, the
\* one byte the table d[] marks as white space
Spoiled(text) == \E k \in 1..Len(Lead(text)) : ~IsCodeDigit(Lead(text)[k]) /\ Lead(text)[k] # "\n"

\* the values of the digits before the first '='
CodeDigits(text) ==
    LET kept == SelectSeq(Lead(text), IsCodeDigit)
    IN  [k \in 1..Len(kept) |-> CodeValue(kept[k])]

\* the number of bytes n digits stand for
DecodedLength(n) ==
    3 * (n \div 4) + (CASE n % 4 = 3 -> 2 [] n % 4 = 2 -> 1 [] OTHER -> 0)

\* the k-th byte (from 1) of the bit string the digits ds spell
DecodedByte(ds, k) ==
    LET q == (8 * (k - 1)) \div 6
        r == (8 * (k - 1)) % 6
        at(n) == IF n <= Len(ds) THEN ds[n] ELSE 0
        w == (at(q + 1) * 4096) + (at(q + 2) * 64) + at(q + 3)
    IN  (w \div (2 ^ (10 - r))) % 256

DigitValue(ch) ==
    IF \E k \in 1..16 : DigitChars[k] = ch THEN (CHOOSE k \in 1..16 : DigitChars[k] = ch) - 1
    ELSE IF \E k \in 1..6 : LowerHex[k] = ch THEN (CHOOSE k \in 1..6 : LowerHex[k] = ch) + 9
    ELSE 16

\* the text is one or more digits of the base
IsNumeral(text, base) ==
    Len(text) > 0 /\ \A k \in 1..Len(text) : DigitValue(text[k]) < base

\* the number a numeral denotes
RECURSIVE NumeralValue(_, _)
NumeralValue(text, base) ==
    IF text = <<>> THEN 0
    ELSE NumeralValue(SubSeq(text, 1, Len(text) - 1), base) * base
         + DigitValue(text[Len(text)])

\* the digits of a signed text, and the number it denotes
Magnitude(text) == IF Len(text) > 0 /\ text[1] = "-" THEN Tail(text) ELSE text
SignedValue(text, base) ==
    IF Len(text) > 0 /\ text[1] = "-" THEN 0 - NumeralValue(Tail(text), base)
    ELSE NumeralValue(text, base)

(***************************************************************************)
(* C25 as stated: str_to_u64 and str_to_i64 never succeed with a wrong     *)
(* value.  They return success exactly when the text is non-empty, every   *)
(* character is a digit of the base and the number fits the unsigned       *)
(* (signed) word, and then the output is that number; otherwise they       *)
(* return a negative status.                                               *)
(***************************************************************************)
C25_ParseNeverWrong ==
    /\ call.op = "str_to_u64" =>
         IF IsNumeral(call.text, call.base) /\ NumeralValue(call.text, call.base) < UMod
         THEN call.rv = 0 /\ call.out = NumeralValue(call.text, call.base)
         ELSE call.rv < 0
    /\ call.op = "str_to_i64" =>
         IF /\ IsNumeral(Magnitude(call.text), call.base)
            /\ SignedValue(call.text, call.base) \in SMin..SMax
         THEN call.fault = "none" /\ call.rv = 0
              /\ call.out = SignedValue(call.text, call.base)
         ELSE call.fault = "none" /\ call.rv < 0

\* the text is the numeral of n in the base, without leading zeros
IsNumeralOf(text, n, base) ==
    /\ IsNumeral(text, base)
    /\ NumeralValue(text, base) = n
    /\ (Len(text) > 1 => text[1] # "0")
    /\ \A k \in 1..Len(text) : \E m \in 1..16 : DigitChars[m] = text[k]

(***************************************************************************)
(* C26 as stated: for every unsigned and every signed value, the least and *)
(* the largest signed value included, and every base from 2 to 16,         *)
(* u64_to_str / i64_to_str yield the right digits (after a '-' for a       *)
(* negative value) and str_to_u64 / str_to_i64 of that text return the     *)
(* value.                                                                  *)
(***************************************************************************)
C26_IntegerTextRoundTrip ==
    /\ call.op = "u64_to_str" =>
         /\ IsNumeralOf(call.text, call.value, call.base)
         /\ call.rv = 0
         /\ call.out = call.value
    /\ call.op = "i64_to_str" =>
         /\ call.fault = "none"
         /\ IF call.value < 0
            THEN /\ call.text[1] = "-"
                 /\ IsNumeralOf(Tail(call.text), 0 - call.value, call.base)
            ELSE IsNumeralOf(call.text, call.value, call.base)
         /\ call.rv = 0
         /\ call.out = call.value

\* the tokens of the text the call was given; the token of v's value is t[2]
TokensOf(c) ==
    jsmn_parse(Append(c.text, NUL), Len(c.text), [k \in 1..c.tokens |-> ZeroToken], c.tokens).t

\* what the function that binds v's value returns and latches: for an object
\* the nested dejsonify, for any other value json_to_element
InnerCall(c) ==
    LET e == BoundDesc(c.before)
        t == TokensOf(c)
        json == Append(c.text, NUL)
    IN  IF GivenValue(c.doc).t = "obj"
        THEN dejsonify(0, IF IsContainer(e) THEN e.data ELSE <<>>, e.used, t, 2,
                       t[3].size * 2, json)
        ELSE json_to_element(0, e, t, 2, c.tokens - 1, json)

\* the first error raised while v's value is bound: the one latched, else
\* the one returned
FirstRaised(c) ==
    IF InnerCall(c).error # 0 THEN InnerCall(c).error ELSE InnerCall(c).rv

(***************************************************************************)
(* C27 as stated: a serializing or deserializing call that fails returns   *)
(* the first error raised during the traversal; no later or generic error  *)
(* code takes the place of the root cause.  Binding the value of v, the    *)
(* first member of the document: when the function binding it fails, the   *)
(* call returns the error that function raised.  Serializing a tree that   *)
(* can be serialized into too small a buffer returns JSER_ERR_SPACE.       *)
(***************************************************************************)
C27_FirstErrorReturned ==
    /\ (Took /\ call.fault = "none" /\ InnerCall(call).fault = "none"
             /\ FirstRaised(call) < 0)
          => call.rv = FirstRaised(call)
    /\ (call.op = "buffer" /\ call.rv # JSER_OK) => call.rv = JSER_ERR_SPACE

(***************************************************************************)
(* The compact text of a tree, written down from the grammar.              *)
(***************************************************************************)
\* the texts in xs with a comma between each two
RECURSIVE Joined(_)
Joined(xs) ==
    IF xs = <<>> THEN <<>>
    ELSE IF Len(xs) = 1 THEN xs[1]
    ELSE xs[1] \o <<",">> \o Joined(Tail(xs))

\* the text of the scalar a descriptor points to, at an index of its run
ScalarText(e, index) == add_value(Context(0, 0, 0, 64), e, index).buf

\* the children of a container that count: the occupied ones, or all of them
ShownChildren(e, occupied) == IF occupied THEN e.used ELSE e.length

RECURSIVE CompactLevel(_, _, _, _)
RECURSIVE CompactValue(_, _)

\* the text of the level of the first n descriptors of level
CompactLevel(level, n, is_array, occupied) ==
    (IF is_array THEN <<"[">> ELSE <<"{">>)
    \o Joined([k \in 1..n |->
                  (IF is_array THEN <<>> ELSE <<"\"">> \o level[k].attr \o <<"\"", ":">>)
                  \o CompactValue(level[k], occupied)])
    \o (IF is_array THEN <<"]">> ELSE <<"}">>)

CompactValue(e, occupied) ==
    IF e.type = JSER_OBJECT_E
    THEN CompactLevel(e.data, ShownChildren(e, occupied), FALSE, occupied)
    ELSE IF e.type = JSER_ARRAY_E
    THEN CompactLevel(e.data, ShownChildren(e, occupied), TRUE, occupied)
    ELSE IF e.is_array
    THEN <<"[">> \o Joined([k \in 1..e.used |-> ScalarText(e, k - 1)]) \o <<"]">>
    ELSE ScalarText(e, 0)

(***************************************************************************)
(* C28.  Compact serialization emits for an object level '{', every        *)
(* descriptor in declaration order as "attribute":value with one comma     *)
(* between two and none after the last, and '}'; for a level of array      *)
(* elements the same with '[' and ']' and no attributes; for a descriptor  *)
(* over a run of scalars '[', its occupied values by index with commas     *)
(* between, and ']'; for an empty level the two brackets only.             *)
(***************************************************************************)
C28_CompactFormat ==
    (call.op = "buffer" /\ call.pretty = 0 /\ call.rv = JSER_OK) =>
        /\ call.used = Len(CompactLevel(j, Len(j), FALSE, FALSE))
        /\ SubSeq(call.text, 1, call.used) = CompactLevel(j, Len(j), FALSE, FALSE)

\* {"a":1,"r":[3,4]} is written
C28_Witness ==
    /\ call.op = "buffer"
    /\ call.pretty = 0
    /\ call.rv = JSER_OK
    /\ SubSeq(call.text, 1, call.used) =
         <<"{", "\"", "a", "\"", ":", "1", ",", "\"", "r", "\"", ":", "[", "3", ",", "4", "]", "}">>

(***************************************************************************)
(* C29 as stated: for an object or array descriptor the serializer emits   *)
(* exactly its first 'used' children, the children the tree walk, the node *)
(* count and the pool copy go through; after an array of capacity c has    *)
(* been deserialized from a JSON array of n < c elements, serializing it   *)
(* emits n elements.                                                       *)
(***************************************************************************)
C29_OccupiedChildrenEmitted ==
    (call.op \in {"buffer", "rebuffer"} /\ call.pretty = 0 /\ call.rv = JSER_OK) =>
        SubSeq(call.text, 1, call.used) = CompactLevel(j, Len(j), FALSE, TRUE)

\* binding the value v to the descriptor e uses no descriptor outside the
\* tree: an object goes to a descriptor without children or to a container,
\* and an array is the document's only value and leaves a child slot free
WithinDescriptors(e, doc) ==
    /\ GivenValue(doc).t = "obj" => (IsContainer(e) \/ e.used = 0)
    /\ GivenValue(doc).t = "arr" =>
         (e.type # JSER_ARRAY_E \/ (Len(doc.m) = 1 /\ Len(GivenValue(doc).m) < e.length))

(***************************************************************************)
(* C30 as stated: the binder never reads a token at an index at or past    *)
(* the size of the token array the caller passed: a key that is the last   *)
(* token of the array, or an array value that ends at the last token,      *)
(* makes the call fail with JSER_ERR_LENGTH, or succeed, without a read    *)
(* past the end of the token array.                                        *)
(***************************************************************************)
C30_TokensReadWithinArray ==
    (Took /\ WithinDescriptors(BoundDesc(call.before), call.doc))
        => /\ call.fault # "ub"
           /\ (call.rv < 0 /\ GivenValue(call.doc).t = "none" /\ Len(call.doc.m) = 1)
                 => call.rv = JSER_ERR_LENGTH

=============================================================================
